---- MODULE Spec2Model ----
(***************************************************************************)
(* ShiftMatch: the heuristic extraction pipeline (ShiftMatchCrawler) and   *)
(* the preference scorer (ShiftMatcher) of app.py.                         *)
(*                                                                         *)
(* Text is a sequence of one-character strings, so that strip, lower,     *)
(* substring tests and the clock-time regular expression are computed on  *)
(* characters as the Python code computes them.                            *)
(***************************************************************************)
EXTENDS Integers, Sequences, FiniteSets, TLC

(***************************************************************************)
(* Bounds of the model.                                                    *)
(***************************************************************************)
MaxRows == 2
MaxTables == 2
MaxCols == 2
MaxShifts == 3
LongRank == 21
MaxWrites == 2
MaxClock == 905

(***************************************************************************)
(* Python values.                                                          *)
(***************************************************************************)
\* None, kept apart from every text (the token is no character).
None == <<"<None>">>

\* Python truthiness of a text-or-None value.
Truthy(x) == x # None /\ x # <<>>

\* x or y
Or(x, y) == IF Truthy(x) THEN x ELSE y

UpperChars == <<"A","B","C","D","E","F","G","H","I","J","K","L","M","N","O","P","Q","R","S","T","U","V","W","X","Y","Z">>
LowerChars == <<"a","b","c","d","e","f","g","h","i","j","k","l","m","n","o","p","q","r","s","t","u","v","w","x","y","z">>
DigitChars == <<"0","1","2","3","4","5","6","7","8","9">>

IsUpper(c) == \E i \in 1..26 : UpperChars[i] = c
IsLower(c) == \E i \in 1..26 : LowerChars[i] = c
IsDigit(c) == \E i \in 1..10 : DigitChars[i] = c
IsSpace(c) == c = " "

LowerChar(c) == IF IsUpper(c) THEN LowerChars[CHOOSE i \in 1..26 : UpperChars[i] = c] ELSE c
UpperChar(c) == IF IsLower(c) THEN UpperChars[CHOOSE i \in 1..26 : LowerChars[i] = c] ELSE c
DigitVal(c) == (CHOOSE i \in 1..10 : DigitChars[i] = c) - 1

\* str.lower()
Lower(s) == [i \in 1..Len(s) |-> LowerChar(s[i])]

\* str.upper()
Upper(s) == [i \in 1..Len(s) |-> UpperChar(s[i])]

\* str.title(): a letter is upper-cased after a non-letter, lower-cased after a letter
Title(s) ==
  [i \in 1..Len(s) |->
     IF i = 1 \/ ~(IsUpper(s[i-1]) \/ IsLower(s[i-1])) THEN UpperChar(s[i]) ELSE LowerChar(s[i])]

RECURSIVE LStrip(_)
LStrip(s) == IF s # <<>> /\ IsSpace(s[1]) THEN LStrip(Tail(s)) ELSE s

RECURSIVE RStrip(_)
RStrip(s) == IF s # <<>> /\ IsSpace(s[Len(s)]) THEN RStrip(SubSeq(s, 1, Len(s) - 1)) ELSE s

\* str.strip()
Strip(s) == RStrip(LStrip(s))

\* s.startswith(p)
StartsWith(s, p) == Len(p) <= Len(s) /\ SubSeq(s, 1, Len(p)) = p

\* sub in s
Contains(s, sub) == \E i \in 1..(Len(s) - Len(sub) + 1) : SubSeq(s, i, i + Len(sub) - 1) = sub

\* s[:n]
Take(s, n) == SubSeq(s, 1, IF Len(s) < n THEN Len(s) ELSE n)

\* int() of a run of decimal digits
RECURSIVE DigitsToInt(_)
DigitsToInt(ds) ==
  IF ds = <<>> THEN 0 ELSE 10 * DigitsToInt(SubSeq(ds, 1, Len(ds) - 1)) + DigitVal(ds[Len(ds)])

\* str() of a non-negative integer
RECURSIVE NatToText(_)
NatToText(n) ==
  IF n < 10 THEN <<DigitChars[n + 1]>> ELSE NatToText(n \div 10) \o <<DigitChars[(n % 10) + 1]>>

\* str() of an integer
IntToText(n) == IF n < 0 THEN <<"-">> \o NatToText(0 - n) ELSE NatToText(n)

\* format(n, "03d") for n >= 0
Pad3(n) ==
  LET t == NatToText(n) IN
  IF Len(t) >= 3 THEN t ELSE [i \in 1..(3 - Len(t)) |-> "0"] \o t

\* sep.join(parts)
RECURSIVE Join(_, _)
Join(sep, parts) ==
  IF parts = <<>> THEN <<>>
  ELSE IF Len(parts) = 1 THEN parts[1]
  ELSE parts[1] \o sep \o Join(sep, Tail(parts))

(***************************************************************************)
(* Constants of app.py.                                                    *)
(***************************************************************************)
KNOWN_COMMITTEES ==
  << <<"R","e","c","e","i","v","i","n","g">>, <<"S","t","o","c","k","i","n","g">>, <<"C","h","e","c","k","o","u","t">>, <<"P","r","o","d","u","c","e">>, <<"M","a","i","n","t","e","n","a","n","c","e">>,
     <<"F","o","o","d"," ","P","r","o","c","e","s","s","i","n","g">>, <<"O","f","f","i","c","e">>, <<"C","h","i","l","d","c","a","r","e">>, <<"O","r","i","e","n","t","a","t","i","o","n">>, <<"I","n","v","e","n","t","o","r","y">>,
     <<"S","h","o","p","p","i","n","g">>, <<"C","a","s","h","i","e","r">>, <<"F","T","O","P">> >>

DAY_NAMES ==
  << <<"M","o","n","d","a","y">>, <<"T","u","e","s","d","a","y">>, <<"W","e","d","n","e","s","d","a","y">>, <<"T","h","u","r","s","d","a","y">>, <<"F","r","i","d","a","y">>, <<"S","a","t","u","r","d","a","y">>, <<"S","u","n","d","a","y">> >>

DAY_ABBRS == << <<"m","o","n">>, <<"t","u","e">>, <<"w","e","d">>, <<"t","h","u">>, <<"f","r","i">>, <<"s","a","t">>, <<"s","u","n">> >>

BASE == <<"h","t","t","p","s",":","/","/","m","e","m","b","e","r","s",".","f","o","o","d","c","o","o","p",".","c","o","m">>

(***************************************************************************)
(* The clock-time regular expression                                       *)
(*   (\d{1,2}):(\d{2})\s*([APap][Mm])                                      *)
(* used by re.search in _extract_shift, _classify_time and score.          *)
(***************************************************************************)
RECURSIVE SkipSpaces(_, _)
SkipSpaces(s, j) == IF j <= Len(s) /\ IsSpace(s[j]) THEN SkipSpaces(s, j + 1) ELSE j

\* the pattern matches at position i with nd hour digits
ClockAt(s, i, nd) ==
  /\ i + nd + 2 <= Len(s)
  /\ \A k \in i..(i + nd - 1) : IsDigit(s[k])
  /\ s[i + nd] = ":"
  /\ IsDigit(s[i + nd + 1])
  /\ IsDigit(s[i + nd + 2])
  /\ LET j == SkipSpaces(s, i + nd + 3) IN
       /\ j + 1 <= Len(s)
       /\ s[j] \in {"A", "P", "a", "p"}
       /\ s[j + 1] \in {"M", "m"}

ClockStarts(s) == {i \in 1..Len(s) : ClockAt(s, i, 2) \/ ClockAt(s, i, 1)}

\* re.search: the leftmost match, the greedy \d{1,2} tried with two digits first
ClockSearch(s) ==
  LET starts == ClockStarts(s) IN
  IF starts = {} THEN [found |-> FALSE, hour |-> 0, ampm |-> <<>>]
  ELSE LET i  == CHOOSE a \in starts : \A b \in starts : a <= b
           nd == IF ClockAt(s, i, 2) THEN 2 ELSE 1
           j  == SkipSpaces(s, i + nd + 3)
       IN [found |-> TRUE,
           hour  |-> DigitsToInt(SubSeq(s, i, i + nd - 1)),
           ampm  |-> Upper(SubSeq(s, j, j + 1))]

(***************************************************************************)
(* Text classifiers of ShiftMatchCrawler.                                  *)
(***************************************************************************)
\* a missing index (dict.get returning None); list indices are 0-based as in the code
NoIdx == -1

_safe_idx(lst, idx) ==
  IF idx # NoIdx /\ 0 <= idx /\ idx < Len(lst) THEN lst[idx + 1] ELSE None

_is_day_name(text) ==
  \E k \in 1..7 : StartsWith(Lower(Strip(text)), DAY_ABBRS[k])

_normalize_day(text) ==
  LET t == Take(Lower(Strip(text)), 3)
      hits == {k \in 1..7 : StartsWith(Lower(DAY_NAMES[k]), t)}
  IN IF hits # {} THEN DAY_NAMES[CHOOSE k \in hits : \A h \in hits : k <= h]
     ELSE Title(Strip(text))

\* the conversion without the midnight case
ClassifyHourNoMidnight(m) == IF m.ampm = <<"P","M">> /\ m.hour # 12 THEN m.hour + 12 ELSE m.hour

\* the 24-hour hour _classify_time derives from a match
ClassifyHour(m) ==
  LET h1 == IF m.ampm = <<"P","M">> /\ m.hour # 12 THEN m.hour + 12 ELSE m.hour
  IN IF m.ampm = <<"A","M">> /\ h1 = 12 THEN 0 ELSE h1

_classify_time(time_raw) ==
  LET m == ClockSearch(time_raw) IN
  IF ~m.found THEN <<"M","o","r","n","i","n","g">>
  ELSE LET hour == ClassifyHour(m) IN
       IF hour < 12 THEN <<"M","o","r","n","i","n","g">>
       ELSE IF hour < 17 THEN <<"A","f","t","e","r","n","o","o","n">>
       ELSE IF hour < 21 THEN <<"E","v","e","n","i","n","g">>
       ELSE <<"O","v","e","r","n","i","g","h","t">>

\* c.lower() for c in KNOWN_COMMITTEES
LowerCommittees == [k \in 1..Len(KNOWN_COMMITTEES) |-> Lower(KNOWN_COMMITTEES[k])]

_fuzzy_committee(text) ==
  LET t == Lower(Strip(text))
      hits == {k \in 1..Len(KNOWN_COMMITTEES) :
                 Contains(t, LowerCommittees[k]) \/ Contains(LowerCommittees[k], t)}
  IN IF hits # {} THEN KNOWN_COMMITTEES[CHOOSE k \in hits : \A h \in hits : k <= h]
     ELSE None

(***************************************************************************)
(* Table strategy.  A row is a sequence of cells; a cell is                *)
(* [text, hrefs]: its get_text(strip=True) and the href values of its      *)
(* <a href> elements in document order.                                    *)
(***************************************************************************)
Texts(cells) == [i \in 1..Len(cells) |-> cells[i].text]

(***************************************************************************)
(* Documents.  The page is read as the code walks it: each step of a      *)
(* strategy is handed the next table, row or column of the page, drawn    *)
(* from pools.  These are the header rows and the rows of the tables.      *)
(***************************************************************************)
Cell(t) == [text |-> t, hrefs |-> <<>>]
CellA(t, hs) == [text |-> t, hrefs |-> hs]

HeaderPool ==
  { << <<"S","h","i","f","t">>, <<"W","h","o">> >>,
    << <<"D","a","y">>, <<"T","i","m","e">>, <<"C","o","m","m","i","t","t","e","e">>, <<"O","p","e","n"," ","S","l","o","t","s">>, <<"N","o","t","e","s">> >> }

RowPool ==
  { << Cell(<<"M","o","n","d","a","y">>), Cell(<<"5",":","0","0","P","M">>), Cell(<<"C","h","e","c","k","o","u","t">>) >>,
    << Cell(<<"2","/","1","4","/","2","0","2","6">>), Cell(<<"6",":","3","0","p","m">>), Cell(<<"P","r","o","d","u","c","e">>), Cell(<<"O","p","e","n">>), Cell(<<"2">>) >>,
    << Cell(<<"1","2",":","1","5","A","M">>), CellA(<<"O","f","f","i","c","e">>, << <<"/","s","e","r","v","i","c","e","s","/","s","h","i","f","t","_","c","l","a","i","m","/","7","/">> >>), Cell(<<"1">>), Cell(<<"7">>) >>,
    << Cell(<<"M","o","n">>), Cell(<<"9",":","4","5"," ","P","M">>), CellA(<<"S","t","o","c","k","i","n","g">>, << <<"/","h","e","l","p">>, <<"/","s","i","g","n","u","p","/","9">> >>), Cell(<<"5">>) >>,
    << Cell(<<>>), Cell(<<"4">>) >>,
    << Cell(<<"n","/","a">>), Cell(<<"-","-">>) >>,
    << Cell(<<"S","a","t","u","r","d","a","y">>) >>,
    << Cell(<<"T","o","t","a","l">>) >> }

\* every cell text of the pools
CellTexts == UNION {{cells[i].text : i \in 1..Len(cells)} : cells \in RowPool}

(***************************************************************************)
(* The classifiers tabulated over the cell texts: a constant is evaluated  *)
(* once, a classifier applied to a text on every step is not.              *)
(***************************************************************************)
IsDayNameOf == [t \in CellTexts |-> _is_day_name(t)]
NormalizeDayOf == [t \in CellTexts |-> _normalize_day(t)]
HasClockOf == [t \in CellTexts |-> ClockSearch(t).found]
ClassifyTimeOf == [t \in CellTexts \cup {<<>>} |-> _classify_time(t)]
FuzzyCommitteeOf == [t \in CellTexts |-> _fuzzy_committee(t)]

AnyIn(keys, txt) == \E k \in keys : Contains(txt, k)

\* the mapping key a header text selects, "" when no keyword occurs in it
HeaderKey(txt) ==
  IF AnyIn({<<"d","a","y">>, <<"d","a","t","e">>}, txt) THEN "day"
  ELSE IF AnyIn({<<"t","i","m","e">>, <<"h","o","u","r">>, <<"w","h","e","n">>}, txt) THEN "time"
  ELSE IF AnyIn({<<"c","o","m","m","i","t","t","e","e">>, <<"s","q","u","a","d">>, <<"d","e","p","t">>, <<"a","r","e","a">>, <<"j","o","b">>}, txt) THEN "committee"
  ELSE IF AnyIn({<<"s","l","o","t">>, <<"o","p","e","n">>, <<"a","v","a","i","l">>, <<"r","e","m","a","i","n">>}, txt) THEN "slots"
  ELSE IF AnyIn({<<"d","e","s","c">>, <<"d","e","t","a","i","l">>, <<"n","o","t","e">>, <<"i","n","f","o">>}, txt) THEN "description"
  ELSE ""

RECURSIVE DetectFrom(_, _, _)
DetectFrom(htexts, idx, mapping) ==
  IF idx >= Len(htexts) THEN mapping
  ELSE LET key == HeaderKey(Lower(htexts[idx + 1])) IN
       DetectFrom(htexts, idx + 1,
                  IF key = "" THEN mapping
                  ELSE [k \in (DOMAIN mapping) \cup {key} |-> IF k = key THEN idx ELSE mapping[k]])

EmptyMap == [k \in {} |-> 0]

_detect_headers(htexts) == DetectFrom(htexts, 0, EmptyMap)

\* hmap.get(key)
HGet(hmap, key) == IF key \in DOMAIN hmap THEN hmap[key] ELSE NoIdx

\* re.match(r"^\d+$", txt.strip())
AllDigits(txt) == LET t == Strip(txt) IN t # <<>> /\ \A i \in 1..Len(t) : IsDigit(t[i])

AllDigitsOf == [t \in CellTexts |-> AllDigits(t)]

\* a scan in which every matching cell assigns its field, filled or not
RECURSIVE ScanCellsOverwriting(_, _, _)
ScanCellsOverwriting(texts, i, f) ==
  IF i > Len(texts) THEN f
  ELSE LET txt == texts[i]
           day1 == IF IsDayNameOf[txt] THEN NormalizeDayOf[txt] ELSE f.day
           time1 == IF HasClockOf[txt] THEN txt ELSE f.time_raw
           cm == FuzzyCommitteeOf[txt]
           comm1 == IF Truthy(cm) THEN cm ELSE f.committee
           slots1 == IF AllDigitsOf[txt] THEN Strip(txt) ELSE f.slots
       IN ScanCellsOverwriting(texts, i + 1,
                               [day |-> day1, time_raw |-> time1, committee |-> comm1, slots |-> slots1])

\* the per-cell scan: each field is assigned only while it is still empty
RECURSIVE ScanCells(_, _, _)
ScanCells(texts, i, f) ==
  IF i > Len(texts) THEN f
  ELSE LET txt == texts[i]
           day1 == IF ~Truthy(f.day) /\ IsDayNameOf[txt] THEN NormalizeDayOf[txt] ELSE f.day
           time1 == IF ~Truthy(f.time_raw) /\ HasClockOf[txt] THEN txt ELSE f.time_raw
           cm == IF ~Truthy(f.committee) THEN FuzzyCommitteeOf[txt] ELSE None
           comm1 == IF ~Truthy(f.committee) /\ Truthy(cm) THEN cm ELSE f.committee
           slots1 == IF ~Truthy(f.slots) /\ AllDigitsOf[txt] THEN Strip(txt) ELSE f.slots
       IN ScanCells(texts, i + 1,
                    [day |-> day1, time_raw |-> time1, committee |-> comm1, slots |-> slots1])

\* href qualifies as a signup link
IsSignupHref(href) ==
  \/ Contains(Lower(href), <<"s","i","g","n","u","p">>)
  \/ Contains(Lower(href), <<"s","h","i","f","t">>)
  \/ StartsWith(href, <<"h","t","t","p">>)

AbsoluteUrl(href) == IF StartsWith(href, <<"h","t","t","p">>) THEN href ELSE BASE \o href

\* for cell in cells: link = cell.find("a", href=True); first qualifying one wins
RECURSIVE FindSignup(_, _)
FindSignup(cells, i) ==
  IF i > Len(cells) THEN <<>>
  ELSE IF cells[i].hrefs # <<>> /\ IsSignupHref(cells[i].hrefs[1])
       THEN AbsoluteUrl(cells[i].hrefs[1])
       ELSE FindSignup(cells, i + 1)

\* the fields of a row after the header map and the scan
RowFields(texts, hmap, current_day) ==
  LET viaMap == DOMAIN hmap # {}
      f0 == [day       |-> IF viaMap THEN Or(current_day, _safe_idx(texts, HGet(hmap, "day")))
                           ELSE current_day,
             time_raw  |-> IF viaMap THEN Or(_safe_idx(texts, HGet(hmap, "time")), <<>>) ELSE <<>>,
             committee |-> IF viaMap THEN Or(_safe_idx(texts, HGet(hmap, "committee")), <<>>) ELSE <<>>,
             slots     |-> IF viaMap THEN Or(_safe_idx(texts, HGet(hmap, "slots")), <<>>) ELSE <<>>]
  IN ScanCells(texts, 1, f0)

\* slots or str(random.randint(1, 6)): the draw is made only when slots is still empty
NeedsRandom(cells, hmap, current_day) == ~Truthy(RowFields(Texts(cells), hmap, current_day).slots)

RandInts(needed) == IF needed THEN 1..6 ELSE {0}

\* rnd is the value random.randint returns when it is called
_extract_shift(cells, texts, hmap, current_day, tbl, row, rnd) ==
  LET f == RowFields(texts, hmap, current_day)
      desc0 == IF DOMAIN hmap # {} THEN Or(_safe_idx(texts, HGet(hmap, "description")), <<>>) ELSE <<>>
      left == SelectSeq(texts, LAMBDA t : t # <<>> /\ t # f.day /\ t # f.time_raw)
      description == IF Truthy(desc0) THEN desc0 ELSE Join(<<" ","|"," ">>, left)
  IN [emit  |-> Truthy(f.time_raw) \/ Truthy(f.committee),
      shift |-> [day          |-> Or(f.day, <<"U","n","k","n","o","w","n">>),
                 time_raw     |-> f.time_raw,
                 time_slot    |-> ClassifyTimeOf[f.time_raw],
                 committee    |-> Or(f.committee, <<"G","e","n","e","r","a","l">>),
                 description  |-> Take(description, 200),
                 signup_url   |-> FindSignup(cells, 1),
                 slots        |-> Or(f.slots, IntToText(rnd)),
                 source_table |-> tbl,
                 source_row   |-> row]]

\* f"shift_{counter:03d}"
ShiftId(counter) == <<"s","h","i","f","t","_">> \o Pad3(counter)

(***************************************************************************)
(* Grid strategy.  A column is [hasP, header, links]: whether it has a <p>,*)
(* that element's text, and its <a class="shift"> elements in document     *)
(* order.  A link is [classes, b, full, href]: its class list, the text of *)
(* its first <b> (None without one), its whole text, and its href ("" when *)
(* the attribute is absent).  Emoji are the tokens of EmojiChars.          *)
(***************************************************************************)
CARROT == "{carrot}"
EmojiChars == {CARROT, "{toilet}", "{broom}"}

\* s.replace(sub, "") for a non-empty sub
RECURSIVE RemoveAll(_, _)
RemoveAll(s, sub) ==
  IF Len(s) < Len(sub) THEN s
  ELSE IF SubSeq(s, 1, Len(sub)) = sub THEN RemoveAll(SubSeq(s, Len(sub) + 1, Len(s)), sub)
  ELSE <<s[1]>> \o RemoveAll(Tail(s), sub)

\* re.sub of the emoji ranges by ""
StripEmoji(s) == SelectSeq(s, LAMBDA c : c \notin EmojiChars)

\* re.sub(r"^\*+\s*", "", s)
RECURSIVE DropStars(_)
DropStars(s) == IF s # <<>> /\ s[1] = "*" THEN DropStars(Tail(s)) ELSE s

StripLeadingStars(s) == IF s # <<>> /\ s[1] = "*" THEN LStrip(DropStars(s)) ELSE s

CommitteeClean(full_text, time_raw) ==
  LET t1 == IF time_raw # <<>> THEN RemoveAll(full_text, time_raw) ELSE full_text
      t2 == Strip(RemoveAll(t1, <<CARROT>>))
      t3 == Strip(StripEmoji(t2))
  IN Strip(StripLeadingStars(t3))

DAY_CAPS == << <<"M","o","n">>, <<"T","u","e">>, <<"W","e","d">>, <<"T","h","u">>, <<"F","r","i">>, <<"S","a","t">>, <<"S","u","n">> >>

\* \d{1,2}/\d{1,2}/\d{4} matched at position i; the length matched, 0 when it does not match
DateLenAt(s, i) ==
  LET Dig(k) == k <= Len(s) /\ IsDigit(s[k])
      Sl(k)  == k <= Len(s) /\ s[k] = "/"
      n1 == IF Dig(i) /\ Dig(i + 1) /\ Sl(i + 2) THEN 2 ELSE IF Dig(i) /\ Sl(i + 1) THEN 1 ELSE 0
      j  == i + n1 + 1
      n2 == IF Dig(j) /\ Dig(j + 1) /\ Sl(j + 2) THEN 2 ELSE IF Dig(j) /\ Sl(j + 1) THEN 1 ELSE 0
      k  == j + n2 + 1
  IN IF n1 > 0 /\ n2 > 0 /\ Dig(k) /\ Dig(k + 1) /\ Dig(k + 2) /\ Dig(k + 3)
     THEN n1 + 1 + n2 + 1 + 4 ELSE 0

\* re.match(r"(Mon|...|Sun)\s*(\d{1,2}/\d{1,2}/\d{4})", header_text)
DayMatch(header_text) ==
  LET abbr == SubSeq(header_text, 1, 3)
      j == SkipSpaces(header_text, 4)
      n == DateLenAt(header_text, j)
  IN IF Len(header_text) >= 3 /\ (\E k \in 1..7 : DAY_CAPS[k] = abbr) /\ n > 0
     THEN [found |-> TRUE, day_abbr |-> abbr, date_str |-> SubSeq(header_text, j, j + n - 1)]
     ELSE [found |-> FALSE, day_abbr |-> <<>>, date_str |-> <<>>]

ColumnDay(col) ==
  LET m == DayMatch(col.header) IN IF m.found THEN _normalize_day(m.day_abbr) ELSE <<"U","n","k","n","o","w","n">>

ColumnDate(col) ==
  LET m == DayMatch(col.header) IN IF m.found THEN m.date_str ELSE <<>>

\* a worker flag that wins over the unavailable flag
LinkStatusWorkerFirst(link) ==
  IF "worker" \in link.classes THEN <<"f","i","l","l","e","d">>
  ELSE IF "unavail" \in link.classes THEN <<"u","n","a","v","a","i","l","a","b","l","e">>
  ELSE <<"a","v","a","i","l","a","b","l","e">>

\* lines 428-436: status
LinkStatus(link) ==
  IF "unavail" \in link.classes THEN <<"u","n","a","v","a","i","l","a","b","l","e">>
  ELSE IF "worker" \in link.classes THEN <<"f","i","l","l","e","d">>
  ELSE <<"a","v","a","i","l","a","b","l","e">>

LinkSlots(link) ==
  IF "unavail" \in link.classes THEN <<"0">>
  ELSE IF "worker" \in link.classes THEN <<"0">>
  ELSE <<"1">>

LinkDescParts(link) ==
  (IF "carrot" \in link.classes THEN << <<"C","a","r","r","o","t"," ","s","h","i","f","t"," ","(","e","x","t","r","a"," ","c","r","e","d","i","t",")">> >> ELSE <<>>)
  \o (IF "unavail" \in link.classes THEN << <<"C","u","r","r","e","n","t","l","y"," ","u","n","a","v","a","i","l","a","b","l","e">> >> ELSE <<>>)
  \o (IF "worker" \in link.classes THEN << <<"W","o","r","k","e","r"," ","a","s","s","i","g","n","e","d">> >> ELSE <<>>)

\* " \u2014 ", the em dash being one token
DASH_SEP == <<" ", "{mdash}", " ">>

\* the record appended for one link; counter is the value after counter += 1
LinkShift(link, day, date_str, counter) ==
  LET time_raw == IF link.b # None THEN link.b ELSE <<>>
      href == Strip(link.href)
  IN [id           |-> ShiftId(counter),
      day          |-> day,
      date         |-> date_str,
      time_raw     |-> time_raw,
      time_slot    |-> _classify_time(time_raw),
      committee    |-> Or(CommitteeClean(link.full, time_raw), <<"G","e","n","e","r","a","l">>),
      description  |-> Join(DASH_SEP, LinkDescParts(link)),
      signup_url   |-> IF href # <<>> THEN AbsoluteUrl(href) ELSE <<>>,
      slots        |-> LinkSlots(link),
      status       |-> LinkStatus(link),
      is_carrot    |-> "carrot" \in link.classes,
      source_table |-> <<"g","r","i","d","-","c","o","n","t","a","i","n","e","r">>,
      source_row   |-> counter]

\* for link in shift_links: counter += 1; shifts.append(...), st = [counter, shifts]
RECURSIVE ColumnShifts(_, _, _, _, _)
ColumnShifts(links, i, day, date_str, st) ==
  IF i > Len(links) THEN st
  ELSE ColumnShifts(links, i + 1, day, date_str,
                    [counter |-> st.counter + 1,
                     shifts  |-> Append(st.shifts, LinkShift(links[i], day, date_str, st.counter + 1))])

(***************************************************************************)
(* The links and columns the grid strategy is handed.                      *)
(***************************************************************************)
Link(cl, b, full, href) == [classes |-> cl, b |-> b, full |-> full, href |-> href]

L_plain == Link({"shift"}, <<"6",":","3","0","p","m">>, <<"6",":","3","0","p","m","B","a","t","h","r","o","o","m"," ">> \o <<"{toilet}">>, <<"/","s","e","r","v","i","c","e","s","/","s","h","i","f","t","_","c","l","a","i","m","/","1","/">>)
L_both == Link({"shift", "unavail", "worker"}, <<"9",":","4","5","p","m">>, <<"9",":","4","5","p","m","*","*"," ","C","h","e","c","k","o","u","t">>, <<>>)
L_carrot == Link({"shift", "carrot", "worker"}, None, <<CARROT>>, <<"h","t","t","p","s",":","/","/","x",".","o","r","g","/","s">>)
L_unavail == Link({"shift", "carrot", "unavail"}, <<"1","2",":","0","0"," ","p","m">>, <<"1","2",":","0","0"," ","p","m","O","f","f","i","c","e">>, <<" ","/","s","/","2"," ">>)

Column(hasP, header, links) == [hasP |-> hasP, header |-> header, links |-> links]

ColPool ==
  { Column(TRUE, <<"S","a","t"," ","2","/","1","4","/","2","0","2","6">>, << L_plain >>),
    Column(TRUE, <<"M","o","n","1","/","5","/","2","0","2","6"," ","B"," ","w","e","e","k">>, << L_both, L_carrot >>),
    Column(TRUE, <<"W","e","e","k","e","n","d">>, << L_unavail, L_plain >>),
    Column(TRUE, <<"s","a","t"," ","2","/","1","4","/","2","0","2","6">>, << >>),
    Column(FALSE, <<>>, << L_plain >>) }

(***************************************************************************)
(* ShiftMatcher.  A shift or a preference set is a dict: a function whose  *)
(* domain is the set of its keys.  A breakdown is the sequence of its      *)
(* <<key, text>> entries in insertion order.                               *)
(***************************************************************************)
\* d.get(key, default)
Get(d, key, default) == IF key \in DOMAIN d THEN d[key] ELSE default

\* [x.lower() for x in xs]
LowerAll(xs) == [i \in 1..Len(xs) |-> Lower(xs[i])]

\* x in xs
InList(x, xs) == \E i \in 1..Len(xs) : xs[i] = x

\* xs.index(x), 0-based, for x in xs
IndexOf(xs, x) == (CHOOSE i \in 1..Len(xs) : xs[i] = x /\ \A j \in 1..(i - 1) : xs[j] # x) - 1

\* A preference entry as the request's JSON gives it: a list of strings, a bare string,
\* or null.
List(xs) == [kind |-> "list", val |-> xs]
Str(t) == [kind |-> "str", val |-> t]
Null == [kind |-> "null", val |-> <<>>]

\* for x in v: None is not iterable (TypeError)
Iterable(v) == v.kind # "null"

\* for x in v: the items of a list, the characters of a string
Iter(v) == IF v.kind = "str" THEN [i \in 1..Len(v.val) |-> <<v.val[i]>>] ELSE v.val

\* ShiftMatcher.__init__ raises: one of the three entries it iterates is not iterable
InitRaises(preferences) ==
  \E key \in {"days", "times", "excludedCommittees"} :
    ~Iterable(Get(preferences, key, List(<<>>)))

\* ShiftMatcher.__init__
ShiftMatcherInit(preferences) ==
  [days       |-> LowerAll(Iter(Get(preferences, "days", List(<<>>)))),
   times      |-> LowerAll(Iter(Get(preferences, "times", List(<<>>)))),
   committees |-> Get(preferences, "committees", List(<<>>)),
   excluded   |-> LowerAll(Iter(Get(preferences, "excludedCommittees", List(<<>>))))]

\* no matcher: the constructor raised
NoMatcher == [days |-> <<>>, times |-> <<>>, committees |-> Null, excluded |-> <<>>]

\* int(text): surrounding whitespace, an optional sign, decimal digits
ParseInt(text) ==
  LET t == Strip(text)
      signed == t # <<>> /\ t[1] \in {"+", "-"}
      ds == IF signed THEN Tail(t) ELSE t
  IN IF ds # <<>> /\ \A i \in 1..Len(ds) : IsDigit(ds[i])
     THEN [ok |-> TRUE, val |-> IF signed /\ t[1] = "-" THEN 0 - DigitsToInt(ds) ELSE DigitsToInt(ds)]
     ELSE [ok |-> FALSE, val |-> 0]

\* a committee term whose penalty counts the rank from 1
CommitteeTermOneBasedRank(self, shift) ==
  LET committee == Get(shift, "committee", <<>>)
      comm_lower == LowerAll(Iter(self.committees))
  IN IF comm_lower # <<>> /\ InList(Lower(committee), comm_lower)
     THEN LET rank == IndexOf(comm_lower, Lower(committee)) IN
          IF rank = 0
          THEN [delta |-> 10, note |-> <<"T","o","p"," ","c","h","o","i","c","e",":"," ">> \o committee \o <<" ","(","+","1","0","%",")">>]
          ELSE [delta |-> 0 - (rank + 1) * 5,
                note  |-> <<"R","a","n","k"," ","#">> \o IntToText(rank + 1) \o <<":"," ">> \o committee
                          \o <<" ","(","-">> \o IntToText((rank + 1) * 5) \o <<"%",")">>]
     ELSE IF comm_lower # <<>>
     THEN [delta |-> -25, note |-> committee \o <<" ","n","o","t"," ","i","n"," ","y","o","u","r"," ","p","r","e","f","e","r","e","n","c","e","s"," ","(","-","2","5","%",")">>]
     ELSE [delta |-> 0, note |-> <<"N","o"," ","c","o","m","m","i","t","t","e","e"," ","p","r","e","f","e","r","e","n","c","e"," ","s","e","t">>]

\* lines 483-499: the committee rank term, [delta, note]
CommitteeTerm(self, shift) ==
  LET committee == Get(shift, "committee", <<>>)
      comm_lower == LowerAll(Iter(self.committees))
  IN IF comm_lower # <<>> /\ InList(Lower(committee), comm_lower)
     THEN LET rank == IndexOf(comm_lower, Lower(committee)) IN
          IF rank = 0
          THEN [delta |-> 10, note |-> <<"T","o","p"," ","c","h","o","i","c","e",":"," ">> \o committee \o <<" ","(","+","1","0","%",")">>]
          ELSE [delta |-> 0 - rank * 5,
                note  |-> <<"R","a","n","k"," ","#">> \o IntToText(rank + 1) \o <<":"," ">> \o committee
                          \o <<" ","(","-">> \o IntToText(rank * 5) \o <<"%",")">>]
     ELSE IF comm_lower # <<>>
     THEN [delta |-> -25, note |-> committee \o <<" ","n","o","t"," ","i","n"," ","y","o","u","r"," ","p","r","e","f","e","r","e","n","c","e","s"," ","(","-","2","5","%",")">>]
     ELSE [delta |-> 0, note |-> <<"N","o"," ","c","o","m","m","i","t","t","e","e"," ","p","r","e","f","e","r","e","n","c","e"," ","s","e","t">>]

\* lines 501-510: the day term
DayTerm(self, shift) ==
  LET day == Lower(Get(shift, "day", <<>>)) IN
  IF self.days # <<>>
  THEN IF InList(day, self.days)
       THEN [delta |-> 0, note |-> Get(shift, "day", <<>>) \o <<" ","i","s"," ","a"," ","p","r","e","f","e","r","r","e","d"," ","d","a","y">>]
       ELSE [delta |-> -20, note |-> Get(shift, "day", <<>>) \o <<" ","i","s"," ","n","o","t"," ","p","r","e","f","e","r","r","e","d"," ","(","-","2","0","%",")">>]
  ELSE [delta |-> 0, note |-> <<"N","o"," ","d","a","y"," ","p","r","e","f","e","r","e","n","c","e"," ","s","e","t">>]

\* lines 512-521: the time term
TimeTerm(self, shift) ==
  LET time_slot == Lower(Get(shift, "time_slot", <<>>)) IN
  IF self.times # <<>>
  THEN IF InList(time_slot, self.times)
       THEN [delta |-> 0, note |-> Get(shift, "time_slot", <<>>) \o <<" ","i","s"," ","a"," ","p","r","e","f","e","r","r","e","d"," ","t","i","m","e">>]
       ELSE [delta |-> -15, note |-> Get(shift, "time_slot", <<>>) \o <<" ","i","s"," ","n","o","t"," ","p","r","e","f","e","r","r","e","d"," ","(","-","1","5","%",")">>]
  ELSE [delta |-> 0, note |-> <<"N","o"," ","t","i","m","e"," ","p","r","e","f","e","r","e","n","c","e"," ","s","e","t">>]

\* lines 523-535: the slots term; a missing key is the integer default 0
SlotsTerm(shift) ==
  LET n == IF "slots" \in DOMAIN shift THEN ParseInt(shift["slots"]) ELSE [ok |-> TRUE, val |-> 0] IN
  IF ~n.ok THEN [delta |-> 0, note |-> <<"S","l","o","t","s"," ","u","n","k","n","o","w","n">>]
  ELSE IF n.val > 3 THEN [delta |-> 5, note |-> IntToText(n.val) \o <<" ","s","l","o","t","s"," ","a","v","a","i","l","a","b","l","e"," ","(","+","5","%",")">>]
  ELSE IF n.val = 1 THEN [delta |-> -5, note |-> <<"O","n","l","y"," ","1"," ","s","l","o","t"," ","l","e","f","t"," ","(","-","5","%",")">>]
  ELSE [delta |-> 0, note |-> IntToText(n.val) \o <<" ","s","l","o","t","s"," ","a","v","a","i","l","a","b","l","e">>]

\* the hour as written, PM not added
ScoreHourAsWritten(m) == m.hour

\* lines 540-543: the hour the scorer derives from a match
ScoreHour(m) == IF m.ampm = <<"P","M">> /\ m.hour # 12 THEN m.hour + 12 ELSE m.hour

\* the late evening penalty from hour 22 on
LateTermAfter21(shift) ==
  LET m == ClockSearch(Get(shift, "time_raw", <<>>)) IN
  IF m.found /\ ScoreHour(m) > 21
  THEN [fired |-> TRUE, delta |-> -10, note |-> <<"L","a","t","e"," ","e","v","e","n","i","n","g"," ","s","h","i","f","t"," ","(","-","1","0","%",")">>]
  ELSE [fired |-> FALSE, delta |-> 0, note |-> <<>>]

\* lines 537-546: the late evening penalty
LateTerm(shift) ==
  LET m == ClockSearch(Get(shift, "time_raw", <<>>)) IN
  IF m.found /\ ScoreHour(m) >= 21
  THEN [fired |-> TRUE, delta |-> -10, note |-> <<"L","a","t","e"," ","e","v","e","n","i","n","g"," ","s","h","i","f","t"," ","(","-","1","0","%",")">>]
  ELSE [fired |-> FALSE, delta |-> 0, note |-> <<>>]

Max(a, b) == IF a >= b THEN a ELSE b
Min(a, b) == IF a <= b THEN a ELSE b

\* the clamp without its lower end
ClampNoFloor(base) == Min(120, base)

\* line 548
Clamp(base) == Max(0, Min(120, base))

\* line 485 raises: self.committees is not iterable
ScoreRaises(self) == ~Iterable(self.committees)

\* a score whose breakdown leaves out the factors that contributed nothing
scoreOmittingNoOps(self, shift) ==
  LET c == CommitteeTerm(self, shift)
      d == DayTerm(self, shift)
      t == TimeTerm(self, shift)
      sl == SlotsTerm(shift)
      l == LateTerm(shift)
      base == 100 + c.delta + d.delta + t.delta + sl.delta + l.delta
      Entry(key, term) == IF term.delta # 0 THEN << <<key, term.note>> >> ELSE <<>>
  IN [shift     |-> shift,
      score     |-> Clamp(base),
      breakdown |-> Entry("committee", c) \o Entry("day", d) \o Entry("time", t)
                    \o Entry("slots", sl) \o Entry("late", l)]

\* ShiftMatcher.score, when it returns
score(self, shift) ==
  LET c == CommitteeTerm(self, shift)
      d == DayTerm(self, shift)
      t == TimeTerm(self, shift)
      sl == SlotsTerm(shift)
      l == LateTerm(shift)
      base == 100 + c.delta + d.delta + t.delta + sl.delta + l.delta
  IN [shift     |-> shift,
      score     |-> Clamp(base),
      breakdown |-> << <<"committee", c.note>>, <<"day", d.note>>, <<"time", t.note>>,
                       <<"slots", sl.note>> >>
                    \o (IF l.fired THEN << <<"late", l.note>> >> ELSE <<>>)]

\* an entry goes in front of the entries of its own score: ties come out reversed
InsertDescBeforeTies(acc, x) ==
  LET k == Cardinality({i \in 1..Len(acc) : acc[i].score > x.score}) IN
  SubSeq(acc, 1, k) \o <<x>> \o SubSeq(acc, k + 1, Len(acc))

\* list.sort(key=score, reverse=True): stable, an entry goes behind every entry
\* already placed whose score is at least its own
InsertDesc(acc, x) ==
  LET k == Cardinality({i \in 1..Len(acc) : acc[i].score >= x.score}) IN
  SubSeq(acc, 1, k) \o <<x>> \o SubSeq(acc, k + 1, Len(acc))

RECURSIVE SortDesc(_, _)
SortDesc(scored, acc) ==
  IF scored = <<>> THEN acc ELSE SortDesc(Tail(scored), InsertDesc(acc, Head(scored)))

\* the exclusion test on the category as written, not lower-cased
NotExcludedCaseSensitive(self, s) == ~InList(Get(s, "committee", <<>>), self.excluded)

\* line 552
NotExcluded(self, s) == ~InList(Lower(Get(s, "committee", <<>>)), self.excluded)

\* rank raises: score is called on a record that passed the filter, and raises
RankRaises(self, shiftList) ==
  ScoreRaises(self) /\ \E i \in 1..Len(shiftList) : NotExcluded(self, shiftList[i])

\* ShiftMatcher.rank, when it returns
rank(self, shiftList) ==
  LET filtered == SelectSeq(shiftList, LAMBDA s : NotExcluded(self, s))
      scored == [i \in 1..Len(filtered) |-> score(self, filtered[i])]
  IN SortDesc(scored, <<>>)

\* ShiftMatcher.top
top(self, shiftList, n) ==
  LET r == rank(self, shiftList) IN SubSeq(r, 1, Min(n, Len(r)))

(***************************************************************************)
(* The shifts and preference sets handed to the matcher.                   *)
(***************************************************************************)
Shift(id, day, time_raw, time_slot, committee) ==
  [id |-> id, day |-> day, time_raw |-> time_raw, time_slot |-> time_slot, committee |-> committee]

WithSlots(sh, slots) == sh @@ [slots |-> slots]

S_example1 == WithSlots(Shift(<<"s","h","i","f","t","_","0","0","1">>, <<"S","a","t","u","r","d","a","y">>, <<"6",":","3","0","p","m">>, <<"E","v","e","n","i","n","g">>, <<"P","r","o","d","u","c","e">>), <<"1">>)
S_example2 == Shift(<<"s","h","i","f","t","_","0","0","2">>, <<"M","o","n","d","a","y">>, <<"9",":","4","5","p","m">>, <<"O","v","e","r","n","i","g","h","t">>, <<"M","a","i","n","t","e","n","a","n","c","e">>)
S_checkout == WithSlots(Shift(<<"s","h","i","f","t","_","0","0","3">>, <<"S","u","n","d","a","y">>, <<"1","2",":","1","5","A","M"," ","-"," ","3",":","0","0","A","M">>, <<"M","o","r","n","i","n","g">>, <<"c","h","e","c","k","o","u","t">>), <<"5">>)
S_office == WithSlots(Shift(<<"s","h","i","f","t","_","0","0","4">>, <<"s","a","t","u","r","d","a","y">>, <<>>, <<"M","o","r","n","i","n","g">>, <<"O","f","f","i","c","e">>), <<"m","a","n","y">>)
S_tie == WithSlots(Shift(<<"s","h","i","f","t","_","0","0","5">>, <<"S","a","t","u","r","d","a","y">>, <<"5",":","0","0","P","M">>, <<"E","v","e","n","i","n","g">>, <<"P","r","o","d","u","c","e">>), <<"1">>)
S_late == WithSlots(Shift(<<"s","h","i","f","t","_","0","0","6">>, <<"F","r","i","d","a","y">>, <<"1","1",":","0","0"," ","P","M">>, <<"O","v","e","r","n","i","g","h","t">>, <<"P","R","O","D","U","C","E">>), <<"1">>)

ShiftPool == {S_example1, S_example2, S_checkout, S_office, S_tie, S_late}

Prefs(days, times, committees, excluded) ==
  [days |-> List(days), times |-> List(times), committees |-> List(committees),
   excludedCommittees |-> List(excluded)]

\* a ranked list whose first LongRank entries name no committee of the pool
Fillers == [i \in 1..LongRank |-> <<"F">> \o NatToText(i)]

P_none == [k \in {} |-> <<>>]
P_example1 == Prefs(<< <<"s","a","t","u","r","d","a","y">> >>, << <<"e","v","e","n","i","n","g">> >>, << <<"P","r","o","d","u","c","e">> >>, <<>>)
P_example2 == Prefs(<< <<"f","r","i","d","a","y">> >>, << <<"m","o","r","n","i","n","g">> >>, << <<"C","h","e","c","k","o","u","t">>, <<"O","f","f","i","c","e">> >>, <<>>)
P_long == Prefs(<< <<"S","u","n","d","a","y">> >>, << <<"M","o","r","n","i","n","g">> >>, Fillers \o << <<"p","r","o","d","u","c","e">> >>, << <<"C","H","E","C","K","O","U","T">> >>)
P_dup == Prefs(<<>>, <<>>, << <<"o","f","f","i","c","e">>, <<"P","r","o","d","u","c","e">>, <<"P","R","O","D","U","C","E">> >>, << <<"O","f","f","i","c","e">>, <<"M","a","i","n","t","e","n","a","n","c","e">> >>)

\* malformed sets: bare strings in place of lists, a null days, a null committees
P_str == [days |-> Str(<<"s","a","t","u","r","d","a","y">>), times |-> Str(<<"e","v","e","n","i","n","g">>), committees |-> Str(<<"P","r","o","d","u","c","e">>),
          excludedCommittees |-> Str(<<"o","f","f","i","c","e">>)]
P_nulldays == [days |-> Null]
P_nullcomm == [committees |-> Null, excludedCommittees |-> List(<< <<"O","f","f","i","c","e">> >>)]

PrefPool == {P_none, P_example1, P_example2, P_long, P_dup, P_str, P_nulldays, P_nullcomm}

\* the default n of top, and the n email_notifier passes
TopN == 5

(***************************************************************************)
(* ShiftMatchCrawler.get_shifts from the parse onwards (lines 188-201):    *)
(* _parse_shifts, then _parse_column_layout when it returned nothing.      *)
(***************************************************************************)
VARIABLES
  pc,            \* "tables": in _parse_shifts, "grid": in _parse_column_layout, "done": returned
  table_idx,     \* enumerate index of the table being walked, -1 before the first
  in_table,      \* inside the row loop of a table
  header_map,    \* _parse_shifts: header_map
  current_day,   \* _parse_shifts: current_day
  row_idx,       \* _parse_shifts: row_idx of the last row walked
  counter,       \* _parse_shifts: counter
  shifts,        \* _parse_shifts: shifts
  nrows,         \* rows walked so far, over all tables
  grid,          \* _parse_column_layout: "unread", "found"
  ncols,         \* columns walked so far
  gcounter,      \* _parse_column_layout: counter
  gshifts,       \* _parse_column_layout: shifts
  walked,        \* history: the columns the loop of _parse_column_layout has walked, in order
  parsed,        \* get_shifts: parsed
  ran,           \* the strategies called so far, in call order
  table_result,  \* what _parse_shifts returned
  last,          \* the loop iteration just executed: [kind, cells, emitted]
  matcher,       \* the ShiftMatcher: [days, times, committees, excluded]
  prefs,         \* the preference set the matcher was built from
  input,         \* the shift list of the request being assembled
  result,        \* the last call on the matcher that returned: [op, n, out]
  prev,          \* [same, out]: the call before it was the same call, and what it returned
  raised,        \* the exception the constructor or the last call ended with, "none" without
  raw_html_store,\* app.py line 32: token -> [html, expires]
  now,           \* what time.time() returns, in seconds
  response,      \* the response of the last request on the store: [op, token, status, body]
  written,       \* history: token -> [html, at], the first write of each token
  gone           \* history: the written tokens that have read as not found

vars == <<pc, table_idx, in_table, header_map, current_day, row_idx, counter, shifts, nrows,
          grid, ncols, gcounter, gshifts, walked, parsed, ran, table_result, last,
          matcher, prefs, input, result, prev, raised,
          raw_html_store, now, response, written, gone>>

tableVars == <<table_idx, in_table, header_map, current_day, row_idx, counter, shifts, nrows>>
gridVars == <<grid, ncols, gcounter, gshifts, walked>>
crawlVars == <<pc, table_idx, in_table, header_map, current_day, row_idx, counter, shifts, nrows,
               grid, ncols, gcounter, gshifts, walked, parsed, ran, table_result, last>>
matchVars == <<matcher, prefs, input, result, prev, raised>>
storeVars == <<raw_html_store, now, response, written, gone>>

\* the store of a new process: {}
EmptyStore == [t \in {} |-> 0]

NoResponse == [op |-> "none", token |-> 0, status |-> 0, body |-> <<>>]

NoRow == [kind |-> "none", cells |-> <<>>, emitted |-> FALSE]

NoCall == [op |-> "none", n |-> 0, out |-> <<>>]
NoPrev == [same |-> FALSE, out |-> <<>>]

\* get_shifts about to parse the page; no matcher call is in progress
Init ==
  /\ pc = "tables"
  /\ table_idx = -1
  /\ in_table = FALSE
  /\ header_map = EmptyMap
  /\ current_day = None
  /\ row_idx = 0
  /\ counter = 0
  /\ shifts = <<>>
  /\ nrows = 0
  /\ grid = "unread"
  /\ ncols = 0
  /\ gcounter = 0
  /\ gshifts = <<>>
  /\ walked = <<>>
  /\ parsed = <<>>
  /\ ran = <<"table">>
  /\ table_result = <<>>
  /\ last = NoRow
  /\ prefs = P_none
  /\ matcher = ShiftMatcherInit(P_none)
  /\ input = <<>>
  /\ result = NoCall
  /\ prev = NoPrev
  /\ raised = "none"
  /\ raw_html_store = EmptyStore
  /\ now = 0
  /\ response = NoResponse
  /\ written = EmptyStore
  /\ gone = {}

\* a matcher built from some preference set, not yet called; no extraction in progress
MatchInit ==
  /\ pc = "tables"
  /\ table_idx = -1
  /\ in_table = FALSE
  /\ header_map = EmptyMap
  /\ current_day = None
  /\ row_idx = 0
  /\ counter = 0
  /\ shifts = <<>>
  /\ nrows = 0
  /\ grid = "unread"
  /\ ncols = 0
  /\ gcounter = 0
  /\ gshifts = <<>>
  /\ walked = <<>>
  /\ parsed = <<>>
  /\ ran = <<"table">>
  /\ table_result = <<>>
  /\ last = NoRow
  /\ prefs \in PrefPool
  /\ matcher = (IF InitRaises(prefs) THEN NoMatcher ELSE ShiftMatcherInit(prefs))
  /\ input = <<>>
  /\ result = NoCall
  /\ prev = NoPrev
  /\ raised = (IF InitRaises(prefs) THEN "TypeError" ELSE "none")
  /\ raw_html_store = EmptyStore
  /\ now = 0
  /\ response = NoResponse
  /\ written = EmptyStore
  /\ gone = {}

\* lines 214-219: the next table has rows; its first row gives the header map
NextTable(htexts) ==
  /\ pc = "tables" /\ ~in_table /\ table_idx + 1 < MaxTables /\ nrows < MaxRows
  /\ table_idx' = table_idx + 1
  /\ in_table' = TRUE
  /\ header_map' = _detect_headers(htexts)
  /\ current_day' = None
  /\ row_idx' = 0
  /\ last' = NoRow
  /\ UNCHANGED <<pc, counter, shifts, nrows, parsed, ran, table_result>>
  /\ UNCHANGED gridVars
  /\ UNCHANGED matchVars
  /\ UNCHANGED storeVars

\* lines 215-217: the next table has no rows
EmptyTable ==
  /\ pc = "tables" /\ ~in_table /\ table_idx + 1 < MaxTables
  /\ table_idx' = table_idx + 1
  /\ last' = NoRow
  /\ UNCHANGED <<pc, in_table, header_map, current_day, row_idx, counter, shifts, nrows,
                 parsed, ran, table_result>>
  /\ UNCHANGED gridVars
  /\ UNCHANGED matchVars
  /\ UNCHANGED storeVars

IsDayRow(cells) == Len(cells) = 1 /\ IsDayNameOf[cells[1].text]

\* lines 226-228: a day-section row
DayRow(cells) ==
  /\ pc = "tables" /\ in_table /\ nrows < MaxRows
  /\ IsDayRow(cells)
  /\ current_day' = NormalizeDayOf[cells[1].text]
  /\ row_idx' = row_idx + 1
  /\ nrows' = nrows + 1
  /\ last' = [kind |-> "day", cells |-> cells, emitted |-> FALSE]
  /\ UNCHANGED <<pc, table_idx, in_table, header_map, counter, shifts, parsed, ran, table_result>>
  /\ UNCHANGED gridVars
  /\ UNCHANGED matchVars
  /\ UNCHANGED storeVars

\* lines 230-231: a row of fewer than two cells
ShortRow(cells) ==
  /\ pc = "tables" /\ in_table /\ nrows < MaxRows
  /\ ~IsDayRow(cells) /\ Len(cells) < 2
  /\ row_idx' = row_idx + 1
  /\ nrows' = nrows + 1
  /\ last' = [kind |-> "short", cells |-> cells, emitted |-> FALSE]
  /\ UNCHANGED <<pc, table_idx, in_table, header_map, current_day, counter, shifts,
                 parsed, ran, table_result>>
  /\ UNCHANGED gridVars
  /\ UNCHANGED matchVars
  /\ UNCHANGED storeVars

\* the counter advanced for every data row, emitted or not
DataRowCountingRejected(cells) ==
  /\ pc = "tables" /\ in_table /\ nrows < MaxRows
  /\ ~IsDayRow(cells) /\ Len(cells) >= 2
  /\ \E rnd \in RandInts(NeedsRandom(cells, header_map, current_day)) :
       LET r == _extract_shift(cells, Texts(cells), header_map, current_day,
                               table_idx, row_idx + 1, rnd)
       IN /\ counter' = counter + 1
          /\ shifts' = IF r.emit THEN Append(shifts, [id |-> ShiftId(counter + 1)] @@ r.shift)
                        ELSE shifts
          /\ last' = [kind |-> "data", cells |-> cells, emitted |-> r.emit]
  /\ row_idx' = row_idx + 1
  /\ nrows' = nrows + 1
  /\ UNCHANGED <<pc, table_idx, in_table, header_map, current_day, parsed, ran, table_result>>
  /\ UNCHANGED gridVars
  /\ UNCHANGED matchVars
  /\ UNCHANGED storeVars

\* lines 233-237: a data row, emitted with the next id or rejected
DataRow(cells) ==
  /\ pc = "tables" /\ in_table /\ nrows < MaxRows
  /\ ~IsDayRow(cells) /\ Len(cells) >= 2
  /\ \E rnd \in RandInts(NeedsRandom(cells, header_map, current_day)) :
       LET r == _extract_shift(cells, Texts(cells), header_map, current_day,
                               table_idx, row_idx + 1, rnd)
       IN /\ IF r.emit
             THEN /\ counter' = counter + 1
                  /\ shifts' = Append(shifts, [id |-> ShiftId(counter + 1)] @@ r.shift)
             ELSE UNCHANGED <<counter, shifts>>
          /\ last' = [kind |-> "data", cells |-> cells, emitted |-> r.emit]
  /\ row_idx' = row_idx + 1
  /\ nrows' = nrows + 1
  /\ UNCHANGED <<pc, table_idx, in_table, header_map, current_day, parsed, ran, table_result>>
  /\ UNCHANGED gridVars
  /\ UNCHANGED matchVars
  /\ UNCHANGED storeVars

\* line 221: the rows of the table are exhausted
EndTable ==
  /\ pc = "tables" /\ in_table
  /\ in_table' = FALSE
  /\ last' = NoRow
  /\ UNCHANGED <<pc, table_idx, header_map, current_day, row_idx, counter, shifts, nrows,
                 parsed, ran, table_result>>
  /\ UNCHANGED gridVars
  /\ UNCHANGED matchVars
  /\ UNCHANGED storeVars

\* the grid strategy called whatever the table strategy returned
ReturnTablesThenGrid ==
  /\ pc = "tables" /\ ~in_table
  /\ shifts # <<>>
  /\ table_result' = shifts
  /\ parsed' = shifts
  /\ ran' = Append(ran, "grid")
  /\ pc' = "grid"
  /\ last' = NoRow
  /\ UNCHANGED tableVars
  /\ UNCHANGED gridVars
  /\ UNCHANGED matchVars
  /\ UNCHANGED storeVars

\* lines 238, 189-193: _parse_shifts returns records, which get_shifts returns
ReturnTables ==
  /\ pc = "tables" /\ ~in_table
  /\ shifts # <<>>
  /\ table_result' = shifts
  /\ parsed' = shifts
  /\ pc' = "done"
  /\ last' = NoRow
  /\ UNCHANGED <<ran>>
  /\ UNCHANGED tableVars
  /\ UNCHANGED gridVars
  /\ UNCHANGED matchVars
  /\ UNCHANGED storeVars

\* lines 238, 189-194: _parse_shifts returns nothing and get_shifts calls _parse_column_layout
FallBackToGrid ==
  /\ pc = "tables" /\ ~in_table
  /\ shifts = <<>>
  /\ table_result' = shifts
  /\ parsed' = shifts
  /\ ran' = Append(ran, "grid")
  /\ pc' = "grid"
  /\ last' = NoRow
  /\ UNCHANGED tableVars
  /\ UNCHANGED gridVars
  /\ UNCHANGED matchVars
  /\ UNCHANGED storeVars

\* lines 368-370: no div.grid-container
GridAbsent ==
  /\ pc = "grid" /\ grid = "unread"
  /\ parsed' = gshifts
  /\ pc' = "done"
  /\ UNCHANGED <<ran, table_result, last>>
  /\ UNCHANGED tableVars
  /\ UNCHANGED gridVars
  /\ UNCHANGED matchVars
  /\ UNCHANGED storeVars

\* lines 368-372: the grid container is there
GridFound ==
  /\ pc = "grid" /\ grid = "unread"
  /\ grid' = "found"
  /\ UNCHANGED <<pc, ncols, gcounter, gshifts, walked, parsed, ran, table_result, last>>
  /\ UNCHANGED tableVars
  /\ UNCHANGED matchVars
  /\ UNCHANGED storeVars

\* lines 374-462: one column, skipped without a <p>, else all its links emitted
GridColumn(col) ==
  /\ pc = "grid" /\ grid = "found" /\ ncols < MaxCols
  /\ ncols' = ncols + 1
  /\ walked' = Append(walked, col)
  /\ IF ~col.hasP
     THEN UNCHANGED <<gcounter, gshifts>>
     ELSE LET st == ColumnShifts(col.links, 1, ColumnDay(col), ColumnDate(col),
                                 [counter |-> gcounter, shifts |-> gshifts])
          IN /\ gcounter' = st.counter
             /\ gshifts' = st.shifts
  /\ UNCHANGED <<pc, grid, parsed, ran, table_result, last>>
  /\ UNCHANGED tableVars
  /\ UNCHANGED matchVars
  /\ UNCHANGED storeVars

\* lines 464, 194-201: _parse_column_layout returns and get_shifts returns its list
GridReturn ==
  /\ pc = "grid" /\ grid = "found"
  /\ parsed' = gshifts
  /\ pc' = "done"
  /\ UNCHANGED <<ran, table_result, last>>
  /\ UNCHANGED tableVars
  /\ UNCHANGED gridVars
  /\ UNCHANGED matchVars
  /\ UNCHANGED storeVars

Next ==
  \/ \E h \in HeaderPool : NextTable(h)
  \/ EmptyTable
  \/ \E cells \in RowPool : DayRow(cells)
  \/ \E cells \in RowPool : ShortRow(cells)
  \/ \E cells \in RowPool : DataRow(cells)
  \/ EndTable
  \/ ReturnTables
  \/ FallBackToGrid
  \/ GridAbsent
  \/ GridFound
  \/ \E col \in ColPool : GridColumn(col)
  \/ GridReturn

Spec == Init /\ [][Next]_vars

(***************************************************************************)
(* The matcher under its callers: api_shifts and api_login build one and   *)
(* call rank, email_notifier calls top.                                    *)
(***************************************************************************)
\* the caller adds a shift to the list it will pass
AddShift(s) ==
  /\ result.op = "none"
  /\ Len(input) < MaxShifts
  /\ ~InList(s, input)
  /\ input' = Append(input, s)
  /\ UNCHANGED <<matcher, prefs, result, prev, raised>>
  /\ UNCHANGED crawlVars
  /\ UNCHANGED storeVars

\* ShiftMatcher(preferences): a new matcher, on which nothing was called yet, or TypeError
NewMatcher(p) ==
  /\ matcher' = (IF InitRaises(p) THEN NoMatcher ELSE ShiftMatcherInit(p))
  /\ raised' = (IF InitRaises(p) THEN "TypeError" ELSE "none")
  /\ prefs' = p
  /\ result' = NoCall
  /\ prev' = NoPrev
  /\ UNCHANGED <<input>>
  /\ UNCHANGED crawlVars
  /\ UNCHANGED storeVars

SameCall(op, n) == result.op = op /\ result.n = n

\* a rank that remembers the categories it has shown and excludes them from then on
RankCallRemembering ==
  /\ ~InitRaises(prefs)
  /\ IF RankRaises(matcher, input)
     THEN result' = NoCall /\ prev' = NoPrev /\ raised' = "TypeError" /\ matcher' = matcher
     ELSE /\ result' = [op |-> "rank", n |-> 0, out |-> rank(matcher, input)]
          /\ prev' = [same |-> SameCall("rank", 0),
                      out |-> IF SameCall("rank", 0) THEN result.out ELSE <<>>]
          /\ raised' = "none"
          /\ matcher' = [matcher EXCEPT !.excluded =
                         matcher.excluded \o [i \in 1..Len(input) |-> Lower(Get(input[i], "committee", <<>>))]]
  /\ UNCHANGED <<prefs, input>>
  /\ UNCHANGED crawlVars
  /\ UNCHANGED storeVars

\* matcher.rank(input) on the matcher that was built: its list, or the TypeError of score
RankCall ==
  /\ ~InitRaises(prefs)
  /\ IF RankRaises(matcher, input)
     THEN result' = NoCall /\ prev' = NoPrev /\ raised' = "TypeError"
     ELSE /\ result' = [op |-> "rank", n |-> 0, out |-> rank(matcher, input)]
          /\ prev' = [same |-> SameCall("rank", 0),
                      out |-> IF SameCall("rank", 0) THEN result.out ELSE <<>>]
          /\ raised' = "none"
  /\ UNCHANGED <<matcher, prefs, input>>
  /\ UNCHANGED crawlVars
  /\ UNCHANGED storeVars

\* matcher.top(input, n) on the matcher that was built
TopCall(n) ==
  /\ ~InitRaises(prefs)
  /\ IF RankRaises(matcher, input)
     THEN result' = NoCall /\ prev' = NoPrev /\ raised' = "TypeError"
     ELSE /\ result' = [op |-> "top", n |-> n, out |-> top(matcher, input, n)]
          /\ prev' = [same |-> SameCall("top", n),
                      out |-> IF SameCall("top", n) THEN result.out ELSE <<>>]
          /\ raised' = "none"
  /\ UNCHANGED <<matcher, prefs, input>>
  /\ UNCHANGED crawlVars
  /\ UNCHANGED storeVars

MatchNext ==
  \/ \E s \in ShiftPool : AddShift(s)
  \/ \E p \in PrefPool : NewMatcher(p)
  \/ RankCall
  \/ \E n \in {1, TopN} : TopCall(n)

MatchSpec == MatchInit /\ [][MatchNext]_vars

(***************************************************************************)
(* The raw-HTML store under its two handlers, api_login (lines 616-665)   *)
(* and api_raw (lines 737-742), and the clock.  A token is the value of    *)
(* str(uuid.uuid4()): a number of Tokens, never one handed out before.     *)
(***************************************************************************)
\* line 639: the seconds an entry lives
TTL == 600

Tokens == 1..(MaxWrites + 1)

\* the pages get_shifts returns
HtmlPool == { <<"<","t","a","b","l","e",">","a","<","/","t","a","b","l","e",">">>, <<"<","d","i","v",">","b","<","/","d","i","v",">">> }

\* the seconds that pass between two requests
Steps == {TTL \div 2, TTL \div 2 + 1}

\* the server process and its store just started; no extraction or matcher call in progress
StoreInit ==
  /\ pc = "tables"
  /\ table_idx = -1
  /\ in_table = FALSE
  /\ header_map = EmptyMap
  /\ current_day = None
  /\ row_idx = 0
  /\ counter = 0
  /\ shifts = <<>>
  /\ nrows = 0
  /\ grid = "unread"
  /\ ncols = 0
  /\ gcounter = 0
  /\ gshifts = <<>>
  /\ walked = <<>>
  /\ parsed = <<>>
  /\ ran = <<"table">>
  /\ table_result = <<>>
  /\ last = NoRow
  /\ prefs = P_none
  /\ matcher = ShiftMatcherInit(P_none)
  /\ input = <<>>
  /\ result = NoCall
  /\ prev = NoPrev
  /\ raised = "none"
  /\ raw_html_store = EmptyStore
  /\ now = 0
  /\ response = NoResponse
  /\ written = EmptyStore
  /\ gone = {}

\* api_login, login succeeded and records were parsed from html: lines 635-650
ApiLoginLive(token, html) ==
  /\ Cardinality(DOMAIN raw_html_store) < MaxWrites
  /\ token \notin DOMAIN raw_html_store
  /\ raw_html_store' = [t \in DOMAIN raw_html_store \cup {token} |->
                          IF t = token THEN [html |-> html, expires |-> now + TTL]
                          ELSE raw_html_store[t]]
  /\ written' = IF token \in DOMAIN written THEN written
                ELSE [t \in DOMAIN written \cup {token} |->
                        IF t = token THEN [html |-> html, at |-> now] ELSE written[t]]
  /\ response' = [op |-> "login", token |-> token, status |-> 200, body |-> <<>>]
  /\ UNCHANGED <<now, gone>>
  /\ UNCHANGED crawlVars
  /\ UNCHANGED matchVars

\* api_login on any other path (missing credentials, login failed, nothing parsed): the
\* store is not written and the response carries no token
ApiLoginNoToken ==
  /\ response' = [op |-> "login", token |-> 0, status |-> 200, body |-> <<>>]
  /\ UNCHANGED <<raw_html_store, now, written, gone>>
  /\ UNCHANGED crawlVars
  /\ UNCHANGED matchVars

\* an api_raw for which an entry is gone from the second of its expiry on
RawAnswerUntilBeforeExpiry(token) ==
  IF token \notin DOMAIN raw_html_store \/ now >= raw_html_store[token].expires
  THEN [op |-> "raw", token |-> token, status |-> 404, body |-> <<"E","x","p","i","r","e","d"," ","o","r"," ","n","o","t"," ","f","o","u","n","d">>]
  ELSE [op |-> "raw", token |-> token, status |-> 200, body |-> raw_html_store[token].html]

\* lines 739-742: what api_raw answers for a token
RawAnswer(token) ==
  IF token \notin DOMAIN raw_html_store \/ now > raw_html_store[token].expires
  THEN [op |-> "raw", token |-> token, status |-> 404, body |-> <<"E","x","p","i","r","e","d"," ","o","r"," ","n","o","t"," ","f","o","u","n","d">>]
  ELSE [op |-> "raw", token |-> token, status |-> 200, body |-> raw_html_store[token].html]

\* api_raw(token)
ApiRaw(token) ==
  /\ response' = RawAnswer(token)
  /\ gone' = IF token \in DOMAIN written /\ RawAnswer(token).status = 404
             THEN gone \cup {token} ELSE gone
  /\ UNCHANGED <<raw_html_store, now, written>>
  /\ UNCHANGED crawlVars
  /\ UNCHANGED matchVars

\* time passes between two requests
Advance(d) ==
  /\ now + d <= MaxClock
  /\ now' = now + d
  /\ response' = NoResponse
  /\ UNCHANGED <<raw_html_store, written, gone>>
  /\ UNCHANGED crawlVars
  /\ UNCHANGED matchVars

StoreNext ==
  \/ \E token \in Tokens : \E html \in HtmlPool : ApiLoginLive(token, html)
  \/ ApiLoginNoToken
  \/ \E token \in Tokens : ApiRaw(token)
  \/ \E d \in Steps : Advance(d)

StoreSpec == StoreInit /\ [][StoreNext]_vars

(***************************************************************************)
(* Properties of the matcher, checked under MatchSpec.                     *)
(***************************************************************************)
Out == result.out
Called == result.op # "none"

\* the list a preference entry holds; the data model has no other kind of entry
ListOf(v) == IF v.kind = "list" THEN v.val ELSE <<>>

\* every entry of the preference set is a list, as the data model has it
WellFormedPrefs == \A key \in DOMAIN prefs : prefs[key].kind = "list"

\* the preference lists as the caller gave them
PrefDays == ListOf(Get(prefs, "days", List(<<>>)))
PrefTimes == ListOf(Get(prefs, "times", List(<<>>)))
PrefRanked == ListOf(Get(prefs, "committees", List(<<>>)))
PrefExcluded == ListOf(Get(prefs, "excludedCommittees", List(<<>>)))

\* x equals an entry of xs up to letter case
InListNoCase(x, xs) == \E i \in 1..Len(xs) : Lower(xs[i]) = Lower(x)

\* the rank at which a category matches the ranked list: its first occurrence, 0-based
MatchRank(cat) ==
  (CHOOSE i \in 1..Len(PrefRanked) :
     /\ Lower(PrefRanked[i]) = Lower(cat)
     /\ \A j \in 1..(i - 1) : Lower(PrefRanked[j]) # Lower(cat)) - 1

ExpectedCategory(sh) ==
  IF PrefRanked = <<>> THEN 0
  ELSE IF ~InListNoCase(sh.committee, PrefRanked) THEN -25
  ELSE IF MatchRank(sh.committee) = 0 THEN 10
  ELSE 0 - 5 * MatchRank(sh.committee)

ExpectedDay(sh) == IF PrefDays # <<>> /\ ~InListNoCase(sh.day, PrefDays) THEN -20 ELSE 0

ExpectedTime(sh) == IF PrefTimes # <<>> /\ ~InListNoCase(sh.time_slot, PrefTimes) THEN -15 ELSE 0

ExpectedSlots(sh) ==
  LET n == IF "slots" \in DOMAIN sh THEN ParseInt(sh["slots"]) ELSE [ok |-> FALSE, val |-> 0] IN
  IF n.ok /\ n.val > 3 THEN 5 ELSE IF n.ok /\ n.val = 1 THEN -5 ELSE 0

ExpectedLate(sh) ==
  LET m == ClockSearch(sh.time_raw) IN IF m.found /\ ClassifyHour(m) >= 21 THEN -10 ELSE 0

ExpectedScore(sh) ==
  LET raw == 100 + ExpectedCategory(sh) + ExpectedDay(sh) + ExpectedTime(sh)
                 + ExpectedSlots(sh) + ExpectedLate(sh)
  IN IF raw < 0 THEN 0 ELSE IF raw > 120 THEN 120 ELSE raw

\* C1: every score returned is an integer of 0..120, also when the rank penalty alone
\* exceeds 100.
ScoreInRange == \A i \in 1..Len(Out) : Out[i].score \in 0..120

\* a returned entry whose category sits at a rank whose penalty exceeds 100
RankPenaltyOver100 ==
  \E i \in 1..Len(Out) :
    /\ InListNoCase(Out[i].shift.committee, PrefRanked)
    /\ 5 * MatchRank(Out[i].shift.committee) > 100
    /\ Out[i].score = 0

\* C2: for a preference set of lists, the score is clamp(100 + c + d + t + s + l, 0, 120)
\* with the five terms as the claim states them; Example 1 scores 105 and Example 2
\* scores 30.
ScoreIsSumOfTerms ==
  /\ WellFormedPrefs => \A i \in 1..Len(Out) : Out[i].score = ExpectedScore(Out[i].shift)
  /\ \A i \in 1..Len(Out) :
       /\ (prefs = P_example1 /\ Out[i].shift = S_example1) => Out[i].score = 105
       /\ (prefs = P_example2 /\ Out[i].shift = S_example2) => Out[i].score = 30

\* Example 2 has been scored, with all four penalties, at 30, next to Example 1's record
ExamplesScored ==
  /\ prefs = P_example2
  /\ \E i \in 1..Len(Out) : Out[i].shift = S_example2 /\ Out[i].score = 30
  /\ \E i \in 1..Len(Out) : Out[i].shift = S_example1 /\ Out[i].score # 30

\* the position of a record in the list rank was called on
PosInInput(sh) == CHOOSE k \in 1..Len(input) : input[k] = sh

\* C3: rank's output is in non-increasing score order, and entries of equal score are in
\* the order their records had in the input.
RankSortedStable ==
  result.op = "rank" =>
    \A i, j \in 1..Len(Out) :
      i < j => /\ Out[i].score >= Out[j].score
               /\ Out[i].score = Out[j].score => PosInInput(Out[i].shift) < PosInInput(Out[j].shift)

\* a ranking that moved a record forward past others and kept a tie in input order
TieKeptWhileReordered ==
  /\ result.op = "rank"
  /\ \E i, j \in 1..Len(Out) : i < j /\ Out[i].score = Out[j].score
  /\ \E i, j \in 1..Len(Out) : i < j /\ PosInInput(Out[i].shift) > PosInInput(Out[j].shift)

IsExcluded(sh) == InListNoCase(sh.committee, PrefExcluded)

Occurrences(sh) == Cardinality({i \in 1..Len(Out) : Out[i].shift = sh})

\* C4: no output of rank or top holds a record of an excluded category, and rank's output
\* holds every other input record exactly once.
ExcludedNeverRanked ==
  /\ Called => \A i \in 1..Len(Out) : ~IsExcluded(Out[i].shift)
  /\ result.op = "rank" =>
       \A k \in 1..Len(input) : Occurrences(input[k]) = (IF IsExcluded(input[k]) THEN 0 ELSE 1)

\* rank dropped a record whose category differs in case from the excluded entry, and kept another
ExcludedDropped ==
  /\ result.op = "rank"
  /\ Len(Out) >= 1
  /\ \E k \in 1..Len(input) :
       /\ IsExcluded(input[k])
       /\ ~InList(input[k].committee, PrefExcluded)

IdOrdinal(id) == DigitsToInt(SubSeq(id, 7, Len(id)))

WellFormedId(id, k) ==
  /\ Len(id) = 6 + (IF k < 1000 THEN 3 ELSE Len(NatToText(k)))
  /\ SubSeq(id, 1, 6) = <<"s","h","i","f","t","_">>
  /\ \A i \in 7..Len(id) : IsDigit(id[i])
  /\ IdOrdinal(id) = k

\* C6: within one extraction call the k-th record emitted carries the zero-padded ordinal
\* k, and rows, tables and columns that are skipped or rejected consume none.
IdsDenseInOrder ==
  /\ \A k \in 1..Len(shifts) : WellFormedId(shifts[k].id, k)
  /\ \A k \in 1..Len(gshifts) : WellFormedId(gshifts[k].id, k)
  /\ counter = Len(shifts)
  /\ gcounter = Len(gshifts)

\* a second record was emitted after a table was skipped or a row was rejected or skipped
SecondIdAfterSkip ==
  /\ Len(shifts) = 2
  /\ last.kind = "data" /\ last.emitted
  /\ table_idx >= 1

TimeSlots == { <<"M","o","r","n","i","n","g">>, <<"A","f","t","e","r","n","o","o","n">>, <<"E","v","e","n","i","n","g">>, <<"O","v","e","r","n","i","g","h","t">> }

\* the bucket of a 24-hour hour
BucketOfHour(h) ==
  IF h < 12 THEN <<"M","o","r","n","i","n","g">> ELSE IF h < 17 THEN <<"A","f","t","e","r","n","o","o","n">>
  ELSE IF h < 21 THEN <<"E","v","e","n","i","n","g">> ELSE <<"O","v","e","r","n","i","g","h","t">>

\* the 24-hour hour of a clock reading: PM adds 12 except at 12, 12 AM is 0
Hour24(h, pm) == IF pm THEN (IF h = 12 THEN 12 ELSE h + 12) ELSE (IF h = 12 THEN 0 ELSE h)

\* the hours written in the sweep
SweepHours == 0..23

\* clock texts "H:MM<sep><suffix>" written around an hour, inside other text
ClockTexts(h, suffix) ==
  { NatToText(h) \o <<":","0","0">> \o suffix,
    NatToText(h) \o <<":","4","5"," ">> \o suffix \o <<" ","-"," ","l","a","t","e">>,
    <<"f","r","o","m"," ">> \o NatToText(h) \o <<":","3","0">> \o suffix \o <<" ","t","o"," ","1","1",":","5","9","P","M">> }

NoClockTexts == { <<>>, <<"n","o","o","n">>, <<"6",":","3","0">>, <<"6","3","0","p","m">>, <<"6",":","3","p","m">>, <<"1","8",":","3","0">>, <<"6",":","3","0"," ","x","m">> }

\* _classify_time on written clock texts, AM and PM in either case
ClassifySweep ==
  /\ \A h \in SweepHours : \A suffix \in { <<"A","M">>, <<"a","m">>, <<"A","m">> } : \A t \in ClockTexts(h, suffix) :
       _classify_time(t) = BucketOfHour(Hour24(h, FALSE))
  /\ \A h \in SweepHours : \A suffix \in { <<"P","M">>, <<"p","m">>, <<"p","M">> } : \A t \in ClockTexts(h, suffix) :
       _classify_time(t) = BucketOfHour(Hour24(h, TRUE))
  /\ \A t \in NoClockTexts : _classify_time(t) = <<"M","o","r","n","i","n","g">>

\* C7: _classify_time returns Morning without a clock time and else the bucket of the first
\* clock time's 24-hour hour, and every emitted record's time_slot is that of its time_raw.
TimeSlotClassified ==
  /\ ClassifySweep
  /\ \A k \in 1..Len(shifts) :
       shifts[k].time_slot \in TimeSlots /\ shifts[k].time_slot = _classify_time(shifts[k].time_raw)
  /\ \A k \in 1..Len(gshifts) :
       gshifts[k].time_slot \in TimeSlots /\ gshifts[k].time_slot = _classify_time(gshifts[k].time_raw)

\* records of a 12 AM time (Morning) and of a 9 PM time (Overnight) were emitted
MidnightAndLateEmitted ==
  /\ \E k \in 1..Len(shifts) : shifts[k].time_raw = <<"1","2",":","1","5","A","M">> /\ shifts[k].time_slot = <<"M","o","r","n","i","n","g">>
  /\ \E k \in 1..Len(shifts) : shifts[k].time_raw = <<"9",":","4","5"," ","P","M">> /\ shifts[k].time_slot = <<"O","v","e","r","n","i","g","h","t">>

\* C8: the table strategy runs first, the grid strategy runs exactly when it returned
\* nothing, and what is returned is the output of one strategy, empty when both are.
OneStrategyReturned ==
  /\ ran \in { <<"table">>, <<"table", "grid">> }
  /\ pc = "tables" => ran = <<"table">> /\ gshifts = <<>> /\ grid = "unread"
  /\ pc = "grid" => ran = <<"table", "grid">> /\ table_result = <<>>
  /\ pc = "done" =>
       IF table_result # <<>>
       THEN ran = <<"table">> /\ parsed = table_result /\ gshifts = <<>>
       ELSE ran = <<"table", "grid">> /\ parsed = gshifts

\* every row of the tables was rejected, and the page had no grid: nothing found, returned
NothingFound ==
  /\ pc = "done" /\ parsed = <<>>
  /\ ran = <<"table", "grid">>
  /\ nrows >= 1 /\ grid = "unread"

CanonicalDays == {DAY_NAMES[k] : k \in 1..7} \cup { <<"U","n","k","n","o","w","n">> }

\* C9: every emitted record's day is one of the seven weekday names or "Unknown".
DayIsCanonical ==
  /\ \A k \in 1..Len(shifts) : shifts[k].day \in CanonicalDays
  /\ \A k \in 1..Len(gshifts) : gshifts[k].day \in CanonicalDays

\* the decimal text of a non-negative integer
IsDecimalText(t) == t # <<>> /\ \A i \in 1..Len(t) : IsDigit(t[i])

\* C10: every emitted record's slots is the decimal text of a non-negative integer, and
\* of one in 1..6 when neither the slots column nor a digit cell of the row supplied it.
SlotsIsDecimal ==
  /\ \A k \in 1..Len(shifts) : IsDecimalText(shifts[k].slots)
  /\ \A k \in 1..Len(gshifts) : IsDecimalText(gshifts[k].slots)
  /\ (last.kind = "data" /\ last.emitted /\ NeedsRandom(last.cells, header_map, current_day))
       => \E n \in 1..6 : shifts[Len(shifts)].slots = NatToText(n)

(***************************************************************************)
(* Malformed preference entries.                                           *)
(***************************************************************************)
\* the matcher built from the preference set with every entry that is not a list
\* replaced by the empty list
RepairedMatcher == ShiftMatcherInit([key \in DOMAIN prefs |-> List(ListOf(prefs[key]))])

\* C11: with a preference entry that is not a list (null, a bare string), building the
\* matcher and scoring never raise, and every call returns what it returns with that entry
\* an empty list, its term 0 with the "no preference set" note.
MalformedEntryIsEmptyList ==
  ~WellFormedPrefs =>
    /\ raised = "none"
    /\ result.op = "rank" => Out = rank(RepairedMatcher, input)
    /\ result.op = "top" => Out = top(RepairedMatcher, input, result.n)

(***************************************************************************)
(* The explanation mapping.                                                *)
(***************************************************************************)
\* the keys of a breakdown in insertion order
Keys(breakdown) == [i \in 1..Len(breakdown) |-> breakdown[i][1]]

\* C12: every breakdown returned has the entries committee, day, time and slots, in that
\* order and each with a text, also for a factor that contributes 0, followed by a "late"
\* entry exactly when the lateness penalty applies to the record.
BreakdownHasFourFactors ==
  \A i \in 1..Len(Out) :
    /\ Keys(Out[i].breakdown) =
         <<"committee", "day", "time", "slots">>
         \o (IF ExpectedLate(Out[i].shift) = -10 THEN <<"late">> ELSE <<>>)
    /\ \A k \in 1..Len(Out[i].breakdown) : Out[i].breakdown[k][2] # <<>>

\* without any preference, a record whose four factors all contribute 0 was explained next
\* to one with the lateness penalty
NoOpFactorsExplained ==
  /\ prefs = P_none
  /\ \E i \in 1..Len(Out) : Out[i].score = 100 /\ Len(Out[i].breakdown) = 4
  /\ \E i \in 1..Len(Out) : Len(Out[i].breakdown) = 5 /\ Out[i].breakdown[5][1] = "late"

(***************************************************************************)
(* Properties of the raw-HTML store, checked under StoreSpec.              *)
(***************************************************************************)
\* C13: an entry stays as it was first written, with the expiry of that write; a read of a
\* written token up to its expiry returns the HTML written, a read after the expiry or of
\* a token never written returns not found; and a written token that has read as not
\* found never reads as found again.
StoreReadUntilExpiry ==
  /\ DOMAIN raw_html_store = DOMAIN written
  /\ \A t \in DOMAIN written :
       raw_html_store[t] = [html |-> written[t].html, expires |-> written[t].at + TTL]
  /\ response.op = "raw" =>
       IF response.token \in DOMAIN written /\ now <= written[response.token].at + TTL
       THEN response.status = 200 /\ response.body = written[response.token].html
       ELSE response.status = 404
  /\ (response.op = "raw" /\ response.token \in gone) => response.status = 404

\* a token read as found in the very second of its expiry, after another one had expired
\* and read as not found
ReadAtExpiryAfterAnotherExpired ==
  /\ response.op = "raw" /\ response.status = 200
  /\ now = written[response.token].at + TTL
  /\ gone # {}

(***************************************************************************)
(* Properties of the table strategy's rows, checked under Spec.            *)
(***************************************************************************)
\* the record the data row just walked was emitted as
LastShift == shifts[Len(shifts)]

DataRowWalked == last.kind = "data"
DataRowEmitted == last.kind = "data" /\ last.emitted

\* a cell text names a catalog category: it has text, and it contains a catalog name or a
\* catalog name contains it, letter case aside
NamesCategory(txt) ==
  LET t == Lower(Strip(txt)) IN
  /\ t # <<>>
  /\ \E k \in 1..Len(KNOWN_COMMITTEES) :
       Contains(t, Lower(KNOWN_COMMITTEES[k])) \/ Contains(Lower(KNOWN_COMMITTEES[k]), t)

NamesCategoryOf == [t \in CellTexts |-> NamesCategory(t)]

\* the row carries a signal: a cell with a time expression or a cell naming a category
CarriesSignal(cells) ==
  \E i \in 1..Len(cells) : HasClockOf[cells[i].text] \/ NamesCategoryOf[cells[i].text]

\* C14: a data row in which no cell holds a time expression and no cell names a catalog
\* category, empty cells included, is rejected; a data row whose resolved time text or
\* category is non-empty is emitted.
RowWithoutSignalRejected ==
  DataRowWalked =>
    /\ ~CarriesSignal(last.cells) => ~last.emitted
    /\ LET f == RowFields(Texts(last.cells), header_map, current_day)
       IN (Truthy(f.time_raw) \/ Truthy(f.committee)) => last.emitted

(***************************************************************************)
(* Properties of the grid strategy, checked under Spec.                    *)
(***************************************************************************)
\* the shift links of the columns walked, column after column and in document order
\* within a column, each with the column it stands in
RECURSIVE LinksOf(_)
LinksOf(cols) ==
  IF cols = <<>> THEN <<>>
  ELSE [i \in 1..Len(Head(cols).links) |-> [col |-> Head(cols), link |-> Head(cols).links[i]]]
       \o LinksOf(Tail(cols))

WalkedLinks == LinksOf(walked)

\* the day and date of a column: those of its header when it has one that matches the
\* day/date pattern, else "Unknown" and ""
HeaderMatches(col) == col.hasP /\ DayMatch(col.header).found
ExpectedColumnDay(col) ==
  IF HeaderMatches(col) THEN _normalize_day(DayMatch(col.header).day_abbr) ELSE <<"U","n","k","n","o","w","n">>
ExpectedColumnDate(col) == IF HeaderMatches(col) THEN DayMatch(col.header).date_str ELSE <<>>

\* C15: with a grid container, the records are one per shift link of every column walked,
\* in column order and document order, none rejected; the links of a column whose header
\* is missing or does not match are records with day "Unknown" and an empty date.
GridEmitsEveryLink ==
  /\ Len(gshifts) = Len(WalkedLinks)
  /\ \A k \in 1..Len(gshifts) :
       k <= Len(WalkedLinks) =>
         /\ gshifts[k].time_raw = (IF WalkedLinks[k].link.b # None THEN WalkedLinks[k].link.b ELSE <<>>)
         /\ gshifts[k].is_carrot = ("carrot" \in WalkedLinks[k].link.classes)
         /\ gshifts[k].day = ExpectedColumnDay(WalkedLinks[k].col)
         /\ gshifts[k].date = ExpectedColumnDate(WalkedLinks[k].col)

\* the links of the walked columns that have a header element: those the loop reaches
EmittedLinks == LinksOf(SelectSeq(walked, LAMBDA col : col.hasP))

\* the notes of the set flags, in the order bonus, currently unavailable, worker assigned
ExpectedNotes(carrot, unavail, worker) ==
  SelectSeq(<< <<carrot, <<"C","a","r","r","o","t"," ","s","h","i","f","t"," ","(","e","x","t","r","a"," ","c","r","e","d","i","t",")">> >>,
               <<unavail, <<"C","u","r","r","e","n","t","l","y"," ","u","n","a","v","a","i","l","a","b","l","e">> >>,
               <<worker, <<"W","o","r","k","e","r"," ","a","s","s","i","g","n","e","d">> >> >>,
            LAMBDA e : e[1])

RECURSIVE DashJoined(_)
DashJoined(notes) ==
  IF notes = <<>> THEN <<>>
  ELSE IF Len(notes) = 1 THEN notes[1][2]
  ELSE notes[1][2] \o <<" ", "{mdash}", " ">> \o DashJoined(Tail(notes))

SlotsParse(sh) == "slots" \in DOMAIN sh /\ ParseInt(sh["slots"]).ok

\* the slots term and note as the claim states them
ExpectedSlotsTerm(sh) ==
  IF ~SlotsParse(sh) THEN [delta |-> 0, note |-> <<"S","l","o","t","s"," ","u","n","k","n","o","w","n">>]
  ELSE LET n == ParseInt(sh["slots"]).val IN
       IF n > 3 THEN [delta |-> 5, note |-> IntToText(n) \o <<" ","s","l","o","t","s"," ","a","v","a","i","l","a","b","l","e"," ","(","+","5","%",")">>]
       ELSE IF n = 1 THEN [delta |-> -5, note |-> <<"O","n","l","y"," ","1"," ","s","l","o","t"," ","l","e","f","t"," ","(","-","5","%",")">>]
       ELSE [delta |-> 0, note |-> IntToText(n) \o <<" ","s","l","o","t","s"," ","a","v","a","i","l","a","b","l","e">>]

\* C17: for every record scored, a slots value that is missing or does not parse as an
\* integer contributes 0 with the "Slots unknown" note; one that parses contributes +5
\* above 3, -5 at 1 and 0 otherwise.
SlotsTermAsStated ==
  \A i \in 1..Len(Out) :
    /\ SlotsTerm(Out[i].shift).delta = ExpectedSlotsTerm(Out[i].shift).delta
    /\ Out[i].breakdown[4] = <<"slots", ExpectedSlotsTerm(Out[i].shift).note>>

\* the lateness penalty fires on a time_raw
LateFires(t) == LateTerm([time_raw |-> t]).fired

\* the hours written in the lateness sweep: those of a clock, and two-digit ones beyond
LateSweepHours == SweepHours \cup {24, 33, 99}

\* on written clock texts and on texts without a clock time, the penalty fires exactly
\* when _classify_time says Overnight
LateSweep ==
  /\ \A h \in LateSweepHours :
       \A suffix \in { <<"A","M">>, <<"a","m">>, <<"A","m">>, <<"P","M">>, <<"p","m">>, <<"p","M">> } :
         \A t \in ClockTexts(h, suffix) : LateFires(t) <=> (_classify_time(t) = <<"O","v","e","r","n","i","g","h","t">>)
  /\ \A suffix \in { <<"A","M">>, <<"P","M">> } : \A t \in ClockTexts(12, suffix) : ~LateFires(t)
  /\ \A t \in NoClockTexts : ~LateFires(t)

\* C18: the lateness penalty is applied to a record exactly when _classify_time of its
\* time_raw is Overnight; 12 AM and 12 PM times and texts without a clock time never
\* incur it.
LateIffOvernight ==
  /\ LateSweep
  /\ \A i \in 1..Len(Out) :
       ("late" \in {Out[i].breakdown[k][1] : k \in 1..Len(Out[i].breakdown)})
         <=> (_classify_time(Out[i].shift.time_raw) = <<"O","v","e","r","n","i","g","h","t">>)

\* a 12 AM record was scored without the penalty next to an 11 PM record scored with it
MidnightAndLateScored ==
  /\ \E i \in 1..Len(Out) : Out[i].shift = S_checkout /\ Len(Out[i].breakdown) = 4
  /\ \E i \in 1..Len(Out) : Out[i].shift = S_late /\ Len(Out[i].breakdown) = 5

(***************************************************************************)
(* Day carry-over and field precedence of the table strategy, under Spec.  *)
(***************************************************************************)
\* the text of the cell the header map gives for a key, None when there is none
MappedCell(cells, key) ==
  IF DOMAIN header_map # {} THEN _safe_idx(Texts(cells), HGet(header_map, key)) ELSE None

\* the first cell, in cell order, that satisfies a test; 0 when none does
FirstCell(cells, Test(_)) ==
  IF \E i \in 1..Len(cells) : Test(cells[i].text)
  THEN CHOOSE i \in 1..Len(cells) :
         Test(cells[i].text) /\ \A j \in 1..(i - 1) : ~Test(cells[j].text)
  ELSE 0

IsDayCell(t) == IsDayNameOf[t]

\* the days a row states itself: that of its header-mapped day cell, as written or
\* normalized, else that of its first cell with a day name
ExplicitDays(cells) ==
  IF Truthy(MappedCell(cells, "day"))
  THEN {MappedCell(cells, "day"), NormalizeDayOf[MappedCell(cells, "day")]}
  ELSE IF FirstCell(cells, IsDayCell) # 0
  THEN {NormalizeDayOf[cells[FirstCell(cells, IsDayCell)].text]}
  ELSE {}

\* current_day changes in a step only by a row of one cell with a day name, which sets it
\* to that day, or by entering the next table, which unsets it
CurrentDaySetByDayRows ==
  current_day' # current_day =>
    \/ /\ last'.kind = "day" /\ Len(last'.cells) = 1 /\ IsDayNameOf[last'.cells[1].text]
       /\ current_day' = NormalizeDayOf[last'.cells[1].text]
       /\ shifts' = shifts
    \/ table_idx' # table_idx /\ current_day' = None

\* C19: the current day is changed only by a one-cell day-name row, which emits nothing;
\* it is unset at the start of each table; and a data row that states a day of its own,
\* in its header-mapped day cell or else in a day-name cell, gets that day, the carried
\* day being used only for a row without one.
DayCarriedOnlyWithoutOwnDay ==
  /\ [][CurrentDaySetByDayRows]_vars
  /\ []((in_table /\ row_idx = 0) => current_day = None)
  /\ [](DataRowEmitted =>
          IF ExplicitDays(last.cells) # {}
          THEN LastShift.day \in ExplicitDays(last.cells)
          ELSE LastShift.day = Or(current_day, <<"U","n","k","n","o","w","n">>))

HasClockCell(t) == HasClockOf[t]
HasCategoryCell(t) == Truthy(FuzzyCommitteeOf[t])
IsDigitsCell(t) == AllDigitsOf[t]

\* the text of the first cell that satisfies a test, "" when none does
FirstText(cells, Test(_)) ==
  IF FirstCell(cells, Test) = 0 THEN <<>> ELSE cells[FirstCell(cells, Test)].text

\* C20: in an emitted record, the time, category, slots and description that the header
\* map gave non-empty are the record's; a field the header map left empty is that of the
\* first cell, in cell order, that matches it, whatever later cells hold.
HeaderValueKeptFirstCellWins ==
  DataRowEmitted =>
    LET cells == last.cells
        ht == MappedCell(cells, "time")
        hc == MappedCell(cells, "committee")
        hs == MappedCell(cells, "slots")
        hd == MappedCell(cells, "description")
    IN /\ LastShift.time_raw = (IF Truthy(ht) THEN ht ELSE FirstText(cells, HasClockCell))
       /\ LastShift.committee =
            (IF Truthy(hc) THEN hc
             ELSE IF FirstCell(cells, HasCategoryCell) # 0
             THEN FuzzyCommitteeOf[FirstText(cells, HasCategoryCell)]
             ELSE <<"G","e","n","e","r","a","l">>)
       /\ IF Truthy(hs) THEN LastShift.slots = hs
          ELSE IF FirstCell(cells, IsDigitsCell) # 0
          THEN LastShift.slots = Strip(FirstText(cells, IsDigitsCell))
          ELSE \E n \in 1..6 : LastShift.slots = NatToText(n)
       /\ Truthy(hd) => LastShift.description = Take(hd, 200)

\* a record kept its header-mapped slots although another cell of the row is a number;
\* another took the first of two number cells by the scan
HeaderBeatsScanAndFirstBeatsLater ==
  /\ DataRowEmitted
  /\ \E k \in 1..Len(shifts) : shifts[k].slots = <<"O","p","e","n">> /\ shifts[k].description = <<"2">>
  /\ \E k \in 1..Len(shifts) : shifts[k].time_raw = <<"1","2",":","1","5","A","M">> /\ shifts[k].slots = <<"1">>

(***************************************************************************)
(* The signup link of a table row, checked under Spec.                     *)
(***************************************************************************)
\* the hrefs of all hyperlinks of a row, cell after cell and in document order in a cell
RECURSIVE AllHrefs(_)
AllHrefs(cells) == IF cells = <<>> THEN <<>> ELSE Head(cells).hrefs \o AllHrefs(Tail(cells))

\* an href qualifies: it contains "signup" or "shift", letter case aside, or is absolute
Qualifies(href) ==
  \/ Contains(Lower(href), <<"s","i","g","n","u","p">>)
  \/ Contains(Lower(href), <<"s","h","i","f","t">>)
  \/ StartsWith(href, <<"h","t","t","p">>)

\* the signup URL the claim states: that of the first qualifying hyperlink of the row
ExpectedSignupUrl(cells) ==
  LET hrefs == AllHrefs(cells)
      q == {i \in 1..Len(hrefs) : Qualifies(hrefs[i])}
  IN IF q = {} THEN <<>>
     ELSE LET first == hrefs[CHOOSE i \in q : \A j \in q : i <= j]
          IN IF StartsWith(first, <<"h","t","t","p">>) THEN first ELSE BASE \o first

\* C21: an emitted row's signup_url is that of the first hyperlink, over all hyperlinks of
\* all its cells in document order, whose href qualifies, also when a non-qualifying
\* hyperlink precedes it in the same cell; it is empty exactly when none qualifies; and a
\* non-empty one is an absolute URL.
SignupUrlFromFirstQualifyingLink ==
  DataRowEmitted =>
    /\ LastShift.signup_url = ExpectedSignupUrl(last.cells)
    /\ (LastShift.signup_url = <<>>) <=> (\A i \in 1..Len(AllHrefs(last.cells)) : ~Qualifies(AllHrefs(last.cells)[i]))
    /\ LastShift.signup_url # <<>> => StartsWith(LastShift.signup_url, <<"h","t","t","p">>)

(***************************************************************************)
(* Listing a category against not listing it, checked under MatchSpec.     *)
(***************************************************************************)
\* the preference sets with which a matcher is built and scores without raising
ScoringPrefs ==
  {p \in PrefPool : ~InitRaises(p) /\ Iterable(Get(p, "committees", List(<<>>)))}

\* the ranked list of a preference set as score iterates it
RankedOf(p) == Iter(Get(p, "committees", List(<<>>)))

\* the categories a record may carry: those of the pool's records and every entry of a
\* ranked list
CategoryPool ==
  {s.committee : s \in ShiftPool}
  \cup UNION {{RankedOf(p)[i] : i \in 1..Len(RankedOf(p))} : p \in ScoringPrefs}

\* the rank at which a category is listed in a lower-cased list, letter case aside;
\* -1 when it is not listed
ListedRank(ranked, c) == IF InList(Lower(c), ranked) THEN IndexOf(ranked, Lower(c)) ELSE -1

\* per preference set: every category with its rank in the matcher's list and the
\* category term the matcher gives a record of that category, and for every record of the
\* pool the sum of the other four terms, which do not read the category
TermsTable ==
  {[prefs  |-> p,
    terms  |-> {[rank |-> ListedRank(LowerAll(RankedOf(p)), c),
                 term |-> CommitteeTerm(ShiftMatcherInit(p), [committee |-> c]).delta]
                  : c \in CategoryPool},
    others |-> {[shift |-> s,
                 sum   |-> DayTerm(ShiftMatcherInit(p), s).delta
                           + TimeTerm(ShiftMatcherInit(p), s).delta
                           + SlotsTerm(s).delta + LateTerm(s).delta]
                  : s \in ShiftPool}]
     : p \in ScoringPrefs}

\* the ranks and category terms under the held matcher
CategoryTerms == (CHOOSE t \in TermsTable : t.prefs = prefs).terms

\* the sums of the other four terms of the records given
OtherTerms ==
  LET others == (CHOOSE t \in TermsTable : t.prefs = prefs).others
  IN  {(CHOOSE o \in others : o.shift = input[k]).sum : k \in 1..Len(input)}

\* a matcher with a non-empty ranked list has been called on the list
RankedListUsed == Called /\ prefs \in ScoringPrefs /\ RankedOf(prefs) # <<>>

\* among listed categories the term does not increase with the rank
TermNonIncreasingInRank(terms) ==
  \A a, b \in terms :
    (a.rank >= 0 /\ a.rank <= b.rank) => a.term >= b.term

\* C22 as stated: for records that differ in category only, a category listed at any rank
\* gets a category term, and a score before the clamp, no lower than a category that is
\* not listed; and among listed categories the term is non-increasing in rank.
ListingNeverHurts ==
  RankedListUsed =>
    LET terms == CategoryTerms
        others == OtherTerms
    IN  /\ \A a, b \in terms :
             (a.rank >= 0 /\ b.rank = -1)
               => /\ a.term >= b.term
                  /\ \A o \in others : 100 + a.term + o >= 100 + b.term + o
        /\ TermNonIncreasingInRank(terms)

\* the last rank at which the rank penalty does not exceed that of an unlisted category
LastHarmlessRank == 25 \div 5

\* C22 amended: for records that differ in category only, a category listed at a rank of
\* at most 5 gets a category term, and a score before the clamp, no lower than a category
\* that is not listed, and one listed at a higher rank gets a lower one; among listed
\* categories the term is non-increasing in rank.
ListingHelpsUpToRankFive ==
  RankedListUsed =>
    LET terms == CategoryTerms
        others == OtherTerms
    IN  /\ \A a, b \in terms :
             (a.rank >= 0 /\ b.rank = -1)
               => IF a.rank <= LastHarmlessRank
                  THEN /\ a.term >= b.term
                       /\ \A o \in others : 100 + a.term + o >= 100 + b.term + o
                  ELSE /\ a.term < b.term
                       /\ \A o \in others : 100 + a.term + o < 100 + b.term + o
        /\ TermNonIncreasingInRank(terms)

\* a ranking that holds a record of a category listed at a rank from 1 to 5 and a record
\* of a category that is not listed
ListedAndUnlistedRanked ==
  /\ RankedListUsed
  /\ LET ranked == LowerAll(RankedOf(prefs))
     IN  /\ \E i \in 1..Len(Out) :
               ListedRank(ranked, Out[i].shift.committee) \in 1..LastHarmlessRank
         /\ \E j \in 1..Len(Out) : ListedRank(ranked, Out[j].shift.committee) = -1

====
